---- MODULE Spec2Model ----
(***************************************************************************)
(* Settings resolution and mutation engine of the Slack QA bot             *)
(* (src/src/commands.py, src/bot/project_commands.py), its identifier      *)
(* sanitizers (src/src/utils.py) and its sliding-window rate limiter       *)
(* (src/bot/rate_limiter.py), over a model of the MongoDB collections      *)
(* "organizations" and "rate_limits" (src/src/db.py).                      *)
(*                                                                         *)
(* Representation.                                                         *)
(*  - A Python str that the code inspects character by character (project  *)
(*    names, command payloads) is a sequence of one-character strings.     *)
(*    Opaque values (field payloads, messages, ids) are TLA+ strings.      *)
(*  - A dict is a function whose DOMAIN is its key set; a missing key is a *)
(*    key outside the DOMAIN.                                              *)
(*  - An organization document is a record: exists (is there a document),  *)
(*    jd (joined_date: missing, a native date or a string, with the        *)
(*    instant it denotes), has_cp / cp (channel_projects), projects        *)
(*    (a missing "projects" key and an empty mapping read the same in      *)
(*    every place of the code: org.get("projects") or {}).                 *)
(*  - A channel binding is a record: kind "str" (legacy bare project       *)
(*    name) or "dict"; project (<<>> when the key is absent); ws, the      *)
(*    welcome_shown key: "absent", "true" or "false".                      *)
(*  - python bool field values are the strings "True" and "False"; text    *)
(*    field values are character sequences.                                *)
(***************************************************************************)
EXTENDS Integers, Sequences, FiniteSets, TLC

VARIABLES
    orgs,       \* organizations collection: tenant -> organization document
    impl,       \* which generation of the code runs: "src" or "bot"
    client,     \* the module-level OpenAI client: "OpenAI", or "None" without an API key
    now,        \* datetime.utcnow(), in abstract ticks
    last,       \* the last finished operation: name, arguments, result, store before it
    rate_limits,\* rate_limits collection: tenant -> rate-limit document of the limiter's key
    limiter,    \* the RateLimiter object: max_requests, window_seconds
    calls,      \* the is_allowed calls made so far, with their results
    remaining,  \* the last get_remaining_requests call, with its result
    ticks,      \* how many times the clock has advanced
    proc,       \* concurrent handlers: worker -> the call it runs, its position, its locals
    written,    \* <<tenant, project, field>> -> the value of the last completed field write
    extra,      \* tenant -> the organization documents inserted beside its first one
    bot_invocations_total,  \* tenant -> the counter field of its organization document
    mention     \* the last mention event: its text, the handlers called, the replies said

rlvars == <<rate_limits, limiter, calls, remaining, ticks>>
metricsvars == <<extra, bot_invocations_total>>
concvars == <<proc, written, extra, bot_invocations_total>>
vars == <<orgs, impl, client, now, last, rate_limits, limiter, calls, remaining, ticks, proc,
          written, extra, bot_invocations_total, mention>>

----------------------------------------------------------------------------
(* Bounds of the model *)

\* number of operations in one behaviour of the sequential specification
MaxOps == 3

\* number of is_allowed calls and of clock advances in one behaviour of the limiter
\* specification, and the largest max_requests a limiter is configured with
MaxCalls == 3
MaxTicks == 2
MaxMaxRequests == 2

----------------------------------------------------------------------------
(* Strings *)

RECURSIVE LStrip(_)
LStrip(s) == IF s # <<>> /\ Head(s) = " " THEN LStrip(Tail(s)) ELSE s

RECURSIVE RStrip(_)
RStrip(s) == IF s # <<>> /\ s[Len(s)] = " " THEN RStrip(SubSeq(s, 1, Len(s) - 1)) ELSE s

\* str.strip()
Strip(s) == RStrip(LStrip(s))

\* ch in s
Contains(s, ch) == \E i \in 1..Len(s) : s[i] = ch

\* a string of n copies of ch
Repeat(ch, n) == [i \in 1..n |-> ch]

\* strip_command(text, command) for a text that holds the command phrase:
\* text = before + command + after.
strip_command(before, after) == Strip(before \o LStrip(after))

----------------------------------------------------------------------------
(* Identifier sanitizer: sanitize_project_name *)

MAX_PROJECT_NAME_LENGTH == 128

Ok(v) == [ok |-> TRUE, value |-> v, error |-> ""]
ValueError(msg) == [ok |-> FALSE, value |-> <<>>, error |-> msg]

\* A mutant: the dot check is missing.
sanitize_project_name_nodot(project_name) ==
    IF project_name = <<>> THEN ValueError("Project name cannot be None or empty")
    ELSE LET name == Strip(project_name) IN
         IF name = <<>> THEN ValueError("Project name cannot be empty after stripping whitespace")
         ELSE IF Contains(name, "$") THEN ValueError("Project name cannot contain dollar signs ($)")
         ELSE IF Contains(name, "{") \/ Contains(name, "}")
              THEN ValueError("Project name cannot contain braces ({})")
         ELSE IF Len(name) > MAX_PROJECT_NAME_LENGTH THEN ValueError("Project name is too long")
         ELSE Ok(name)

sanitize_project_name(project_name) ==
    IF project_name = <<>> THEN ValueError("Project name cannot be None or empty")
    ELSE LET name == Strip(project_name) IN
         IF name = <<>> THEN ValueError("Project name cannot be empty after stripping whitespace")
         ELSE IF Contains(name, ".") THEN ValueError("Project name cannot contain dots (.)")
         ELSE IF Contains(name, "$") THEN ValueError("Project name cannot contain dollar signs ($)")
         ELSE IF Contains(name, "{") \/ Contains(name, "}")
              THEN ValueError("Project name cannot contain braces ({})")
         ELSE IF Len(name) > MAX_PROJECT_NAME_LENGTH THEN ValueError("Project name is too long")
         ELSE Ok(name)

----------------------------------------------------------------------------
(* Dicts *)

EmptyMap == [x \in {} |-> x]

Put(m, k, v) == [x \in (DOMAIN m) \cup {k} |-> IF x = k THEN v ELSE m[x]]

Get(m, k, dflt) == IF k \in DOMAIN m THEN m[k] ELSE dflt

\* {**a, **b}: the keys of both, b's values win
Merge(a, b) == [x \in (DOMAIN a) \cup (DOMAIN b) |-> IF x \in DOMAIN b THEN b[x] ELSE a[x]]

----------------------------------------------------------------------------
(* Identifier sanitizer and string order *)

\* the characters the model uses, in code point order
Alphabet ==
    <<" ", "$", "-", ".", "0", "1", "2", "3", "4", "5", "6", "7", "8", "9",
      "A", "B", "C", "D", "E", "F", "G", "H", "I", "J", "K", "L", "M", "N", "O", "P", "Q",
      "R", "S", "T", "U", "V", "W", "X", "Y", "Z", "_",
      "a", "b", "c", "d", "e", "f", "g", "h", "i", "j", "k", "l", "m", "n", "o", "p", "q",
      "r", "s", "t", "u", "v", "w", "x", "y", "z", "{", "}">>

\* ord(ch)
CodePoint(ch) == CHOOSE i \in 1..Len(Alphabet) : Alphabet[i] = ch

\* re.match(r'^[A-Za-z0-9_-]+$', identifier) accepts these characters
SlackIdChars == {Alphabet[i] : i \in 1..Len(Alphabet)} \ {" ", "$", ".", "{", "}"}

\* the identifier None
NoneId == <<"None">>

MAX_ID_LENGTH == 256

\* an identifier that is no string (a number, a list)
NonStringId == <<"int">>

\* A mutant: the identifier is validated without being trimmed.
sanitize_slack_id_nostrip(identifier) ==
    IF identifier = NoneId THEN ValueError("cannot be None")
    ELSE IF identifier = <<>> THEN ValueError("cannot be empty")
    ELSE IF identifier = NonStringId THEN ValueError("must be a string")
    ELSE IF \E i \in 1..Len(identifier) : identifier[i] \notin SlackIdChars
         THEN ValueError("contains invalid characters")
    ELSE IF Len(identifier) > MAX_ID_LENGTH THEN ValueError("is too long")
    ELSE Ok(identifier)

\* sanitize_slack_id(identifier, name), allow_none = False
sanitize_slack_id(identifier) ==
    IF identifier = NoneId THEN ValueError("cannot be None")
    ELSE IF identifier = <<>> THEN ValueError("cannot be empty")
    ELSE IF identifier = NonStringId THEN ValueError("must be a string")
    ELSE LET id == Strip(identifier) IN
         IF id = <<>> THEN ValueError("cannot be empty after stripping whitespace")
         ELSE IF Contains(id, "$") \/ Contains(id, "{") \/ Contains(id, "}")
              THEN ValueError("contains invalid characters that could be used for injection")
         ELSE IF \E i \in 1..Len(id) : id[i] \notin SlackIdChars
              THEN ValueError("contains invalid characters")
         ELSE IF Len(id) > MAX_ID_LENGTH THEN ValueError("is too long")
         ELSE Ok(id)

\* sanitize_slack_id(identifier, name, allow_none)
sanitize_slack_id_opt(identifier, allow_none) ==
    IF identifier = NoneId /\ allow_none THEN Ok(NoneId) ELSE sanitize_slack_id(identifier)

\* a < b for Python strings
StrLess(a, b) ==
    \E k \in 1..(Len(b)) :
        /\ \A i \in 1..(k - 1) : i <= Len(a) /\ a[i] = b[i]
        /\ k > Len(a) \/ (k <= Len(a) /\ CodePoint(a[k]) < CodePoint(b[k]))

RECURSIVE Sorted(_)
\* sorted(S)
Sorted(S) ==
    IF S = {} THEN <<>>
    ELSE LET x == CHOOSE x \in S : \A y \in S \ {x} : StrLess(x, y)
         IN  <<x>> \o Sorted(S \ {x})

----------------------------------------------------------------------------
(* The organizations collection *)

Tenants == {"T1"}
Channels == {"C1", "C2"}
\* channel_id = None
NoChannel == "None"

\* the four-line default template, a sequence of its lines
DefaultTemplate == <<"Bug name:", "Steps:", "Actual result:", "Expected:">>

PROJECT_DEFAULTS ==
    [use_project_context |-> "False",
     project_context     |-> <<>>,
     bug_report_template |-> DefaultTemplate]

PROJECT_FIELDS ==
    {"bug_report_template", "project_context", "use_project_context", "jira_token",
     "jira_url", "jira_bug_query", "jira_email", "jira_defaults"}

default_project == <<"d", "e", "f", "a", "u", "l", "t">>

JdMissing == [kind |-> "missing", t |-> 0]
JdStr(t)  == [kind |-> "str", t |-> t]
JdDate(t) == [kind |-> "date", t |-> t]

\* no document for the tenant
NoOrg == [exists |-> FALSE, jd |-> JdMissing, has_cp |-> FALSE, cp |-> EmptyMap,
          projects |-> EmptyMap]

\* the document an upsert inserts from its filter {"team_id": team_id} alone
BareOrg == [exists |-> TRUE, jd |-> JdMissing, has_cp |-> FALSE, cp |-> EmptyMap,
            projects |-> EmptyMap]

NoBinding == [kind |-> "none", project |-> <<>>, ws |-> "absent"]
StrBinding(p) == [kind |-> "str", project |-> p, ws |-> "absent"]
DictBinding(p, ws) == [kind |-> "dict", project |-> p, ws |-> ws]

\* update_one(..., upsert=True): the document the update operators then act on
Upserted(o) == IF o.exists THEN o ELSE BareOrg

\* {"$set": {"projects.<p>.<f>": v}}
SetProjectField(o, p, f, v) ==
    [o EXCEPT !.projects = Put(o.projects, p, Put(Get(o.projects, p, EmptyMap), f, v))]

\* {"$set": {"projects.<p>": rec}}
SetProject(o, p, rec) == [o EXCEPT !.projects = Put(o.projects, p, rec)]

\* {"$set": {"channel_projects.<c>": b}}
SetBinding(o, c, b) == [o EXCEPT !.has_cp = TRUE, !.cp = Put(o.cp, c, b)]

----------------------------------------------------------------------------
(* Settings Resolver: get_settings *)

\* What a function returns: a settings dict (kind "settings"), a reply (kind "msg":
\* msg says which reply, text is the text it carries: a template, a project name),
\* None (kind "none"), or an exception that leaves it (kind "raise").
Ret(kind, settings, msg, text) == [kind |-> kind, settings |-> settings, msg |-> msg, text |-> text]
RetSettings(s) == Ret("settings", s, "", <<>>)
RetMsg(m, text) == Ret("msg", EmptyMap, m, text)
RetNone == Ret("none", EmptyMap, "", <<>>)
RetRaise(m) == Ret("raise", EmptyMap, m, <<>>)

\* 1 when an update_one modified the document
Modified(before, after) == IF before = after THEN 0 ELSE 1

\* update_one({"team_id": t}, {"$setOnInsert": {team_id, channel_projects: {},
\*             joined_date: joined_date_str}}, upsert=True)
EnsureOrg(o, joined_date_str) ==
    IF o.exists THEN o
    ELSE [exists |-> TRUE, jd |-> JdStr(joined_date_str), has_cp |-> TRUE, cp |-> EmptyMap,
          projects |-> EmptyMap]

\* A mutant: the filter on a missing joined_date is dropped.
BackfillJoinedDate_always(o, t) == IF o.exists THEN [o EXCEPT !.jd = JdStr(t)] ELSE o

\* update_one({"team_id": t, "joined_date": {"$exists": False}}, {"$set": {"joined_date": ...}})
BackfillJoinedDate(o, t) ==
    IF o.exists /\ o.jd.kind = "missing" THEN [o EXCEPT !.jd = JdStr(t)] ELSE o

\* update_one({"team_id": t, "channel_projects": {"$exists": False}},
\*            {"$set": {"channel_projects": {}}})
EnsureChannelProjects(o) ==
    IF o.exists /\ ~o.has_cp THEN [o EXCEPT !.has_cp = TRUE, !.cp = EmptyMap] ELSE o

\* update_one({"team_id": t, "joined_date": {"$type": "date"}},
\*            {"$set": {"joined_date": org["joined_date"].isoformat() + "Z"}})
\* with org the document fetched before
ConvertJoinedDate(o, org) ==
    IF o.exists /\ o.jd.kind = "date" THEN [o EXCEPT !.jd = JdStr(org.jd.t)] ELSE o

\* bot generation: update_fields, computed from the fetched document
BotUpdateFields(org, joined_date_str) ==
    [set_cp |-> ~org.has_cp,
     set_jd |-> org.jd.kind \in {"missing", "date"},
     jd     |-> IF org.jd.kind = "date" THEN JdStr(org.jd.t) ELSE JdStr(joined_date_str)]

\* bot generation: update_one({"team_id": t}, {"$set": update_fields}), also org.update(...)
BotRepairOrg(o, uf) ==
    IF ~o.exists \/ (~uf.set_cp /\ ~uf.set_jd) THEN o
    ELSE [o EXCEPT !.has_cp = IF uf.set_cp THEN TRUE ELSE @,
                   !.cp     = IF uf.set_cp THEN EmptyMap ELSE @,
                   !.jd     = IF uf.set_jd THEN uf.jd ELSE @]

\* A mutant: only the structured binding is read, a bare string is not a binding.
BoundProjectRaw_dictonly(org, c) ==
    IF Get(org.cp, c, NoBinding).kind = "dict" THEN Get(org.cp, c, NoBinding).project
    ELSE <<>>

\* channel_info.get("project") if isinstance(channel_info, dict) else channel_info
BoundProjectRaw(org, c) == Get(org.cp, c, NoBinding).project

\* bot generation: _extract_and_sanitize_project_name; <<>> stands for None
extract_and_sanitize_project_name(channel_info) ==
    LET project_name == channel_info.project
    IN  IF project_name = <<>> THEN <<>>
        ELSE LET r == sanitize_project_name(project_name)
             IN  IF r.ok THEN r.value ELSE <<>>

\* A mutant: an unbound channel resolves to the implicit default project.
ResolvedProject_default(org, c) ==
    LET project_name == BoundProjectRaw(org, c)
    IN  IF project_name = <<>> THEN default_project
        ELSE LET r == sanitize_project_name(project_name)
             IN  IF r.ok THEN r.value ELSE <<>>

\* A mutant: the bound name is used as stored, without sanitize_project_name.
ResolvedProject_unsanitized(org, c) == BoundProjectRaw(org, c)

\* The project get_settings resolves for the channel from the fetched document:
\* <<>> when the channel is unbound or its project name is invalid.
ResolvedProject(org, c) ==
    LET project_name == BoundProjectRaw(org, c)
    IN  IF project_name = <<>> THEN <<>>
        ELSE LET r == sanitize_project_name(project_name)
             IN  IF r.ok THEN r.value ELSE <<>>

\* A mutant: the merge is written the other way round, the defaults win.
MergedSettings_defaultswin(org, project_name) ==
    Merge(Get(org.projects, project_name, EmptyMap), PROJECT_DEFAULTS)

\* A mutant: the stored record is returned without the defaults under it.
MergedSettings_nomerge(org, project_name) == Get(org.projects, project_name, EmptyMap)

\* merged_project_settings = {**PROJECT_DEFAULTS, **project_settings}
MergedSettings(org, project_name) ==
    Merge(PROJECT_DEFAULTS, Get(org.projects, project_name, EmptyMap))

\* A mutant: the corrective write is made on every resolution.
NeedsPersist_always(org, project_name) == TRUE

\* merged_project_settings != project_settings
NeedsPersist(org, project_name) ==
    MergedSettings(org, project_name) # Get(org.projects, project_name, EmptyMap)

\* A mutant: the corrective write stores the defaults in place of the merge.
PersistMerged_reset(o, project_name, merged) ==
    IF o.exists THEN SetProject(o, project_name, PROJECT_DEFAULTS) ELSE o

\* update_one({"team_id": t}, {"$set": {"projects.<name>": merged}}), no upsert
PersistMerged(o, project_name, merged) ==
    IF o.exists THEN SetProject(o, project_name, merged) ELSE o

\* The tail of get_settings, from "if not org" on: o is the stored document, org the
\* fetched one, w the writes made so far.
ResolveSettings(o, org, c, w) ==
    IF ~org.exists
    THEN [o |-> o, ret |-> RetSettings(IF c = NoChannel THEN EmptyMap ELSE PROJECT_DEFAULTS),
          writes |-> w, pwrites |-> 0]
    ELSE IF c = NoChannel
    THEN [o |-> o, ret |-> RetSettings(EmptyMap), writes |-> w, pwrites |-> 0]
    ELSE LET project_name == ResolvedProject(org, c)
         IN  IF project_name = <<>>
             THEN [o |-> o, ret |-> RetSettings(PROJECT_DEFAULTS), writes |-> w, pwrites |-> 0]
             ELSE LET merged == MergedSettings(org, project_name)
                  IN  IF NeedsPersist(org, project_name)
                      THEN [o |-> PersistMerged(o, project_name, merged),
                            ret |-> RetSettings(merged), writes |-> w + 1, pwrites |-> 1]
                      ELSE [o |-> o, ret |-> RetSettings(merged), writes |-> w, pwrites |-> 0]

\* get_settings of src/src/commands.py, run without interruption at instant t
get_settings_src(o, c, t) ==
    LET o1  == EnsureOrg(o, t)
        o2  == BackfillJoinedDate(o1, t)
        o3  == EnsureChannelProjects(o2)
        o4  == IF o3.jd.kind = "date" THEN ConvertJoinedDate(o3, o3) ELSE o3
        w   == Modified(o, o1) + Modified(o1, o2) + Modified(o2, o3) + Modified(o3, o4)
    IN  ResolveSettings(o4, o4, c, w)

\* get_settings of src/bot/project_commands.py, run without interruption at instant t
get_settings_bot(o, c, t) ==
    LET o1  == EnsureOrg(o, t)
        o2  == BotRepairOrg(o1, BotUpdateFields(o1, t))
        w   == Modified(o, o1) + Modified(o1, o2)
    IN  ResolveSettings(o2, o2, c, w)

get_settings(o, c, t, gen) ==
    IF gen = "src" THEN get_settings_src(o, c, t) ELSE get_settings_bot(o, c, t)

----------------------------------------------------------------------------
(* Project Binder: set_channel_project, get_channel_project_name, _require_project *)

MsgProvideName == "Please provide a project name."
MsgInvalidName == "Invalid project name"
MsgBound       == "Channel is now using project configuration"
MsgNoProject   == "No project is set for this channel."
MsgUnexpected  == "An unexpected error occurred while accessing the database."
MsgProvideTemplate == "Please provide the bug report template content."
MsgTemplateUpdated == "Bug report template updated"
MsgTemplate    == "bug_report_template"

\* A mutant: the binding is rebuilt from the project name alone.
BindingUpdate_fresh(channel_info, project_name) == DictBinding(project_name, "absent")

\* update_obj: {"project": name}, with welcome_shown copied from a dict binding that has it
BindingUpdate(channel_info, project_name) ==
    DictBinding(project_name,
                IF channel_info.kind = "dict" /\ channel_info.ws # "absent"
                THEN channel_info.ws ELSE "absent")

\* set_channel_project(text, team_id, channel_id), text = before + "use project" + after
set_channel_project(o, before, after, c, t, gen) ==
    LET project_name == Strip(strip_command(before, after))
    IN  IF project_name = <<>>
        THEN [o |-> o, ret |-> RetMsg(MsgProvideName, <<>>), writes |-> 0, pwrites |-> 0]
        ELSE LET r == sanitize_project_name(project_name)
             IN  IF ~r.ok
                 THEN [o |-> o, ret |-> RetMsg(MsgInvalidName, <<>>), writes |-> 0, pwrites |-> 0]
                 ELSE LET channel_info == Get(o.cp, c, NoBinding)
                          o1 == SetBinding(Upserted(o), c, BindingUpdate(channel_info, r.value))
                          g  == get_settings(o1, c, t, gen)
                      IN  [o |-> g.o, ret |-> RetMsg(MsgBound, r.value),
                           writes |-> Modified(o, o1) + g.writes, pwrites |-> g.pwrites]

\* get_channel_project_name: the raw bound name, <<>> for None
get_channel_project_name(o, c) ==
    IF ~o.exists THEN <<>> ELSE Get(o.cp, c, NoBinding).project

\* _require_project: TRUE when the gate lets the command through
require_project_passes(o, c) ==
    c = NoChannel \/ get_channel_project_name(o, c) # <<>>

MsgNoProjects == "No project configurations found yet."
MsgProjects   == "Available project configurations:"

\* the team_id of tenant t, as Slack sends it
TeamId(t) == <<"T", "1">>

\* the tenant a sanitized team_id names
TenantOf(id) == CHOOSE t \in Tenants : TeamId(t) = id

\* list_projects(team_id); o is the document of the tenant the identifier names, the
\* text of the reply is the sorted list of names
\* A mutant: the names are listed in descending order.
list_projects_reversed(o, team_id) ==
    LET projects == Sorted(DOMAIN o.projects)
    IN  [o |-> o,
         ret |-> RetMsg(MsgProjects,
                        [i \in 1..Len(projects) |-> projects[Len(projects) + 1 - i]]),
         writes |-> 0, pwrites |-> 0]

list_projects(o, team_id) ==
    LET r == sanitize_slack_id(team_id)
    IN  IF ~r.ok
        THEN [o |-> o, ret |-> RetRaise("ValueError"), writes |-> 0, pwrites |-> 0]
        ELSE LET projects == Sorted(DOMAIN o.projects)
             IN  IF projects = <<>>
                 THEN [o |-> o, ret |-> RetMsg(MsgNoProjects, <<>>), writes |-> 0, pwrites |-> 0]
                 ELSE [o |-> o, ret |-> RetMsg(MsgProjects, projects), writes |-> 0,
                       pwrites |-> 0]

----------------------------------------------------------------------------
(* Field Mutator: _update_settings_field *)

\* The project the write goes to, from the fetched document: skip (the write is
\* not made) or the project's name.
UpdateTarget(org, c, gen) ==
    IF c = NoChannel THEN [skip |-> FALSE, name |-> default_project]
    ELSE IF gen = "src"
    THEN LET project_name == BoundProjectRaw(org, c)
         IN  IF project_name = <<>> THEN [skip |-> FALSE, name |-> default_project]
             ELSE LET r == sanitize_project_name(project_name)
                  IN  IF r.ok THEN [skip |-> FALSE, name |-> r.value]
                      ELSE [skip |-> TRUE, name |-> <<>>]
    ELSE LET project_name == extract_and_sanitize_project_name(Get(org.cp, c, NoBinding))
         IN  IF project_name # <<>> THEN [skip |-> FALSE, name |-> project_name]
             ELSE [skip |-> FALSE, name |-> default_project]

\* A mutant: the write replaces the project record by one holding the field alone.
FieldWrite_replace(o, p, f, v) == SetProject(Upserted(o), p, Put(EmptyMap, f, v))

\* A mutant: the write is made without upsert=True.
FieldWrite_noupsert(o, p, f, v) == IF o.exists THEN SetProjectField(o, p, f, v) ELSE o

\* update_one({"team_id": t}, {"$set": {"projects.<p>.<f>": v}}, upsert=True)
FieldWrite(o, p, f, v) == SetProjectField(Upserted(o), p, f, v)

\* _update_settings_field(team_id, channel_id, field, value); the branch for a field
\* of PROJECT_FIELDS and the one for any other field route the write the same way.
update_settings_field(o, c, f, v, gen) ==
    LET org == IF o.exists THEN o ELSE NoOrg
        tgt == UpdateTarget(org, c, gen)
    IN  IF tgt.skip
        THEN [o |-> o, ret |-> RetNone, writes |-> 0, pwrites |-> 0]
        ELSE LET o1 == FieldWrite(o, tgt.name, f, v)
             IN  [o |-> o1, ret |-> RetNone, writes |-> Modified(o, o1), pwrites |-> 0]

----------------------------------------------------------------------------
(* Bug template commands *)

\* show_bug_report_template(team_id, channel_id)
show_bug_report_template(o, c, t, gen) ==
    IF ~require_project_passes(o, c)
    THEN [o |-> o, ret |-> RetMsg(MsgNoProject, <<>>), writes |-> 0, pwrites |-> 0]
    ELSE LET g == get_settings(o, c, t, gen)
         IN  IF "bug_report_template" \in DOMAIN g.ret.settings
             THEN [g EXCEPT !.ret = RetMsg(MsgTemplate, g.ret.settings["bug_report_template"])]
             \* settings["bug_report_template"] raises KeyError, caught by the command
             ELSE [g EXCEPT !.ret = RetMsg(MsgUnexpected, <<>>)]

\* edit_bug_report_template(text, team_id, channel_id),
\* text = before + "edit bug template" + after
edit_bug_report_template(o, before, after, c, gen) ==
    IF ~require_project_passes(o, c)
    THEN [o |-> o, ret |-> RetMsg(MsgNoProject, <<>>), writes |-> 0, pwrites |-> 0]
    ELSE LET payload == Strip(strip_command(before, after))
         IN  IF payload = <<>>
             THEN [o |-> o, ret |-> RetMsg(MsgProvideTemplate, <<>>), writes |-> 0, pwrites |-> 0]
             ELSE LET u == update_settings_field(o, c, "bug_report_template", payload, gen)
                  IN  [u EXCEPT !.ret = RetMsg(MsgTemplateUpdated, <<>>)]

----------------------------------------------------------------------------
(* Welcome flag: set_channel_welcome_shown *)

\* update_one({"team_id": t}, {"$set": {"channel_projects.<c>.welcome_shown": value}},
\* upsert=True). MongoDB refuses to create a field inside a string (a legacy binding):
\* the error is caught and logged, nothing is written.
set_channel_welcome_shown(o, c, value) ==
    LET channel_info == Get(o.cp, c, NoBinding)
        ws == IF value THEN "true" ELSE "false"
    IN  IF channel_info.kind = "str" THEN o
        ELSE SetBinding(Upserted(o), c, DictBinding(channel_info.project, ws))

\* get_channel_welcome_shown(team_id, channel_id)
get_channel_welcome_shown(o, c) ==
    LET channel_info == Get(o.cp, c, NoBinding)
    IN  o.exists /\ channel_info.kind = "dict" /\ channel_info.ws = "true"

----------------------------------------------------------------------------
(* Storage failures: get_mongodb_error_message, and the commands when an operation
   of the store raises *)

MsgConnect   == "I'm having trouble connecting to the database."
MsgOperation == "A database operation failed."
MsgDatabase  == "A database error occurred."

\* the pymongo exception classes a store operation raises
StorageErrors == {"ConnectionFailure", "ServerSelectionTimeoutError", "OperationFailure",
                  "PyMongoError"}

\* get_mongodb_error_message(error, operation_name)
get_mongodb_error_message(error) ==
    IF error \in {"ConnectionFailure", "ServerSelectionTimeoutError"} THEN MsgConnect
    ELSE IF error = "OperationFailure" THEN MsgOperation
    ELSE IF error = "PyMongoError" THEN MsgDatabase
    ELSE MsgUnexpected

StorageErrorMsgs == {MsgConnect, MsgOperation, MsgDatabase}

\* get_channel_project_name when its find_one raises: the error is logged, None returned
get_channel_project_name_failing(o, c) == <<>>

\* show_bug_report_template when the store operation `at` raises `error`: "gate" is the
\* find_one of the bound-project lookup, "get_settings" the first operation of
\* get_settings
show_bug_report_template_failing(o, c, at, error) ==
    IF c # NoChannel /\ at = "gate"
    THEN IF get_channel_project_name_failing(o, c) = <<>>
         THEN [o |-> o, ret |-> RetMsg(MsgNoProject, <<>>), writes |-> 0, pwrites |-> 0]
         ELSE [o |-> o, ret |-> RetMsg(MsgTemplate, <<>>), writes |-> 0, pwrites |-> 0]
    ELSE [o |-> o, ret |-> RetMsg(get_mongodb_error_message(error), <<>>), writes |-> 0,
          pwrites |-> 0]

\* list_projects when its find_one raises `error`
list_projects_failing(o, error) ==
    [o |-> o, ret |-> RetMsg(get_mongodb_error_message(error), <<>>), writes |-> 0,
     pwrites |-> 0]

\* set_channel_project with a valid name when the store operation `at` raises `error`:
\* its find_one, its update_one, or the first operation of its get_settings call
set_channel_project_failing(o, before, after, c, at, error) ==
    LET name == sanitize_project_name(Strip(strip_command(before, after))).value
        o1   == IF at = "get_settings"
                THEN SetBinding(Upserted(o), c, BindingUpdate(Get(o.cp, c, NoBinding), name))
                ELSE o
    IN  [o |-> o1, ret |-> RetMsg(get_mongodb_error_message(error), <<>>),
         writes |-> Modified(o, o1), pwrites |-> 0]

----------------------------------------------------------------------------
(* Documentation flag: set_use_documentation, and handle_mention for it *)

MsgWelcome == "Hi! I'm your QA helper bot."
MsgUseDocumentation == "Use documentation:"
MsgWillUseDocs == "Bot will use project documentation"
MsgWontUseDocs == "Bot won't use project documentation"

\* str(flag)
PyBool(flag) == IF flag THEN "True" ELSE "False"

\* set_use_documentation(flag, team_id, channel_id)
set_use_documentation(o, flag, c, gen) ==
    IF ~require_project_passes(o, c)
    THEN [o |-> o, ret |-> RetMsg(MsgNoProject, <<>>), writes |-> 0, pwrites |-> 0]
    ELSE LET u == update_settings_field(o, c, "use_project_context", PyBool(flag), gen)
         IN  [u EXCEPT !.ret = RetMsg(MsgUseDocumentation, <<>>)]

\* handle_mention for the text "enable docs" (flag) or "disable docs": the welcome on
\* the first mention in the channel, then the command, whose result is not used
handle_mention_docs(o, flag, c, gen) ==
    IF c # NoChannel /\ ~get_channel_welcome_shown(o, c)
    THEN LET o1 == set_channel_welcome_shown(o, c, TRUE)
         IN  [o |-> o1, ret |-> RetMsg(MsgWelcome, <<>>), writes |-> Modified(o, o1),
              pwrites |-> 0]
    ELSE LET r == set_use_documentation(o, flag, c, gen)
         IN  [r EXCEPT !.ret = RetMsg(IF flag THEN MsgWillUseDocs ELSE MsgWontUseDocs, <<>>)]

----------------------------------------------------------------------------
(* Rate Limiter: RateLimiter.is_allowed *)

SECONDS_PER_HOUR == 3600
SECONDS_PER_MINUTE == 60

\* A stored request is a datetime (kind "dt"), an ISO string without offset ("iso"), an
\* ISO string with 'Z' or an offset ("isoz") or a string that does not parse ("bad");
\* t is the instant it denotes, in seconds.
Stamp(t) == [kind |-> "dt", t |-> t]

NoRateDoc == [exists |-> FALSE, requests |-> <<>>]

\* valid_requests: the stored requests not older than window_start, as datetimes
ValidRequests(requests, window_start) ==
    LET kept == SelectSeq(requests, LAMBDA r : r.kind \in {"dt", "iso"} /\ r.t >= window_start)
    IN  [i \in 1..Len(kept) |-> Stamp(kept[i].t)]

\* datetime.fromisoformat(req.replace('Z', '+00:00')) is offset-aware; its comparison
\* with the naive window_start raises TypeError, which the loop does not catch.
CompareRaises(requests) == \E i \in 1..Len(requests) : requests[i].kind = "isoz"

\* min(valid_requests)
Oldest(valid) == CHOOSE r \in {valid[i].t : i \in 1..Len(valid)} :
                    \A i \in 1..Len(valid) : r <= valid[i].t

Allowed(doc) == [doc |-> doc, allowed |-> TRUE, msg |-> FALSE, hours |-> 0, minutes |-> 0]
Denied(doc, time_until_reset) ==
    [doc |-> doc, allowed |-> FALSE, msg |-> TRUE,
     hours   |-> time_until_reset \div SECONDS_PER_HOUR,
     minutes |-> (time_until_reset % SECONDS_PER_HOUR) \div SECONDS_PER_MINUTE]

\* is_allowed(team_id) at instant t, run without interruption, no storage error
is_allowed(doc, lim, t) ==
    LET window_start == t - lim.window_seconds
    IN  IF ~doc.exists
        THEN Allowed([exists |-> TRUE, requests |-> <<Stamp(t)>>])
        ELSE IF CompareRaises(doc.requests)
        THEN Allowed(doc)
        ELSE LET valid_requests == ValidRequests(doc.requests, window_start)
                 time_until_reset ==
                     IF valid_requests = <<>> THEN 0
                     ELSE Oldest(valid_requests) + lim.window_seconds - t
             IN  IF /\ Len(valid_requests) >= lim.max_requests
                    /\ valid_requests # <<>>
                    /\ time_until_reset > 0
                 THEN Denied(doc, time_until_reset)
                 ELSE Allowed([doc EXCEPT !.requests = Append(valid_requests, Stamp(t))])

\* The store operations a limiter call can make, and "none" for no failure
StoreOps == {"find_one", "insert_one", "update_one"}

\* the store operation is_allowed makes after its find_one, "none" when it makes none
WriteOp(doc, lim, t) ==
    IF ~doc.exists THEN "insert_one"
    ELSE IF CompareRaises(doc.requests) \/ ~is_allowed(doc, lim, t).allowed THEN "none"
    ELSE "update_one"

\* the store operation `fail` is reached by is_allowed and raises
StoreFails(doc, lim, t, fail) == fail = "find_one" \/ (fail # "none" /\ fail = WriteOp(doc, lim, t))

\* A mutant: the handlers deny the request.
FailOpen_closed(doc) == Denied(doc, 0)

\* except PyMongoError / except Exception: return True, None
FailOpen(doc) == Allowed(doc)

\* is_allowed when the store operation `fail` raises
is_allowed_failing(doc, lim, t, fail) ==
    IF StoreFails(doc, lim, t, fail) THEN FailOpen(doc) ELSE is_allowed(doc, lim, t)

\* A mutant: the difference is returned without the floor at zero.
get_remaining_requests_nofloor(doc, lim, t, fail) ==
    IF fail = "find_one" \/ ~doc.exists THEN lim.max_requests
    ELSE lim.max_requests - Len(ValidRequests(doc.requests, t - lim.window_seconds))

\* get_remaining_requests(team_id) at instant t; its only store operation is find_one
get_remaining_requests(doc, lim, t, fail) ==
    IF fail = "find_one" THEN lim.max_requests
    ELSE IF ~doc.exists THEN lim.max_requests
    ELSE IF CompareRaises(doc.requests) THEN lim.max_requests
    ELSE LET n == lim.max_requests - Len(ValidRequests(doc.requests, t - lim.window_seconds))
         IN  IF n > 0 THEN n ELSE 0

NoRemaining == [called |-> FALSE, team_id |-> "", value |-> 0, failed |-> FALSE, would |-> 0,
                t |-> 0, pre |-> NoRateDoc]

----------------------------------------------------------------------------
(* Metrics: init_or_get_org, increment_bot_invocations *)

\* org = {"team_id": t, "bot_invocations_total": 0, "joined_date": joined_date_str}
NewOrg(joined_date_str) ==
    [exists |-> TRUE, jd |-> JdStr(joined_date_str), has_cp |-> FALSE, cp |-> EmptyMap,
     projects |-> EmptyMap]

\* What init_or_get_org does after its find_one returned org: insert, backfill,
\* convert, or nothing
InitOrGetOrgBranch(org) ==
    IF ~org.exists THEN "insert"
    ELSE IF org.jd.kind = "missing" THEN "backfill"
    ELSE IF org.jd.kind = "date" THEN "convert"
    ELSE "return"

\* update_one({"team_id": t}, {"$set": {"joined_date": joined_date_str}}), with the
\* string computed from the fetched document org: a fresh one when joined_date is
\* missing there, the conversion of its datetime otherwise
InitOrGetOrgRepair(o, org, joined_date_str) ==
    IF ~o.exists THEN o
    ELSE IF org.jd.kind = "missing" THEN [o EXCEPT !.jd = JdStr(joined_date_str)]
    ELSE [o EXCEPT !.jd = JdStr(org.jd.t)]

\* update_one({"team_id": t}, {"$inc": {"bot_invocations_total": 1}}, upsert=True)
increment_bot_invocations(o) == Upserted(o)

----------------------------------------------------------------------------
(* Concurrent handlers: Slack events are handled by several threads at once *)

Workers == {"w1", "w2"}

\* A handler's position and locals: the call (op) and its arguments, the project name
\* a binding call was given, joined_date_str, and org, the document its last find_one
\* fetched; for a limiter call, at is the instant it read from the clock, doc the
\* rate-limit document its find_one fetched, overlap whether another call ran meanwhile.
Idle == [pc |-> "idle", op |-> "none", t |-> "", c |-> NoChannel, f |-> "", v |-> <<>>,
         name |-> <<>>, joined_date_str |-> 0, org |-> NoOrg, at |-> 0, doc |-> NoRateDoc,
         overlap |-> FALSE]

----------------------------------------------------------------------------
(* Sequential specification: one request at a time, each handler run to its end *)

NameA == <<"A">>
NameB == <<"B">>
BadName == <<"A", ".", "B">>

\* Documents left by earlier generations of the code: a native-date joined_date, a
\* bare-string binding, a binding to a name no sanitizer has seen, project records
\* written before a default key existed, a document without joined_date.
LegacyStr ==
    [exists |-> TRUE, jd |-> JdDate(0), has_cp |-> TRUE,
     cp |-> Put(EmptyMap, "C1", StrBinding(NameA)),
     projects |-> Put(EmptyMap, NameA, [bug_report_template |-> <<"x">>])]

LegacyBad ==
    [exists |-> TRUE, jd |-> JdStr(0), has_cp |-> TRUE,
     cp |-> Put(EmptyMap, "C1", DictBinding(BadName, "true")),
     projects |-> Put(EmptyMap, NameA, PROJECT_DEFAULTS)]

LegacyNoDate ==
    [exists |-> TRUE, jd |-> JdMissing, has_cp |-> TRUE,
     cp |-> Put(EmptyMap, "C1", DictBinding(NameA, "true")),
     projects |-> Put(EmptyMap, NameA, [project_context |-> <<"y">>])]

InitDocs == {NoOrg, LegacyStr, LegacyBad, LegacyNoDate}

Text(before, after) == [before |-> before, after |-> after]
NoText == Text(<<>>, <<>>)

\* "use project <after>"
BindTexts == {Text(<<>>, <<" ", "A">>), Text(<<>>, <<" ", "B", " ">>),
              Text(<<>>, <<" ", "A", ".", "B">>)}

\* "edit bug template <after>"
EditTexts == {Text(<<>>, <<" ", "x">>), Text(<<>>, <<" ", "y", " ">>), Text(<<>>, <<" ">>)}

UpdateFields == {"project_context", "jira_url"}
Payloads == {<<"x">>}

\* no store operation of the command failed
\* no mention event yet
NoMention == [on |-> FALSE, t |-> "", c |-> NoChannel, text |-> <<>>, pre |-> NoOrg,
              invoked |-> <<>>, said |-> <<>>, raised |-> FALSE, welcomed |-> {}]

NoFail == [at |-> "none", error |-> ""]
NoExpect == [on |-> FALSE, t |-> "", c |-> NoChannel, v |-> <<>>]
NoPrev == [op |-> "none", c |-> NoChannel, ret |-> RetNone, pre |-> NoOrg]
NoLast == [op |-> "none", t |-> "", c |-> NoChannel, f |-> "", v |-> <<>>, text |-> NoText,
           ret |-> RetNone, pre |-> NoOrg, writes |-> 0, pwrites |-> 0, upd |-> FALSE,
           prev |-> NoPrev, expect |-> NoExpect, fail |-> NoFail]

\* The template a reader of channel c is owed: set by an edit that stored a payload on
\* a channel bound to a valid project, kept by every operation that neither writes
\* bug_report_template nor rebinds that channel.
NextExpect(op, t, c, f, v, r, upd) ==
    IF upd /\ f = "bug_report_template"
    THEN IF c # NoChannel /\ ResolvedProject(orgs[t], c) # <<>>
         THEN [on |-> TRUE, t |-> t, c |-> c, v |-> v]
         ELSE NoExpect
    ELSE IF /\ op = "set_channel_project" /\ r.ret.msg = MsgBound
            /\ t = last.expect.t /\ c = last.expect.c
         THEN NoExpect
         ELSE last.expect

\* The operation's record: r is what the handler computed from the tenant's document,
\* fail the store operation that failed in it.
DoneFailing(op, t, c, f, v, text, r, upd, fail) ==
    /\ orgs' = [orgs EXCEPT ![t] = r.o]
    /\ last' = [op |-> op, t |-> t, c |-> c, f |-> f, v |-> v, text |-> text, ret |-> r.ret,
                pre |-> orgs[t], writes |-> r.writes, pwrites |-> r.pwrites, upd |-> upd,
                prev |-> [op |-> last.op, c |-> last.c, ret |-> last.ret, pre |-> last.pre],
                expect |-> NextExpect(op, t, c, f, v, r, upd), fail |-> fail]
    /\ now' = now + 1
    /\ UNCHANGED <<impl, client, mention, rlvars, concvars>>

Done(op, t, c, f, v, text, r, upd) == DoneFailing(op, t, c, f, v, text, r, upd, NoFail)

GetSettings(t, c) ==
    /\ now < MaxOps
    /\ Done("get_settings", t, c, "", <<>>, NoText, get_settings(orgs[t], c, now, impl), FALSE)

SetChannelProject(t, c, text) ==
    /\ now < MaxOps
    /\ Done("set_channel_project", t, c, "", <<>>, text,
            set_channel_project(orgs[t], text.before, text.after, c, now, impl), FALSE)

UpdateSettingsField(t, c, f, v) ==
    /\ now < MaxOps
    /\ Done("update_settings_field", t, c, f, v, NoText,
            update_settings_field(orgs[t], c, f, v, impl), TRUE)

ShowBugReportTemplate(t, c) ==
    /\ now < MaxOps
    /\ Done("show_bug_report_template", t, c, "", <<>>, NoText,
            show_bug_report_template(orgs[t], c, now, impl), FALSE)

EditBugReportTemplate(t, c, text) ==
    /\ now < MaxOps
    /\ LET r == edit_bug_report_template(orgs[t], text.before, text.after, c, impl)
       IN  Done("edit_bug_report_template", t, c, "bug_report_template",
                Strip(strip_command(text.before, text.after)), text, r,
                r.ret.msg = MsgTemplateUpdated)

SetChannelWelcomeShown(t, c) ==
    /\ now < MaxOps
    /\ LET o1 == set_channel_welcome_shown(orgs[t], c, TRUE)
       IN  Done("set_channel_welcome_shown", t, c, "", <<>>, NoText,
                [o |-> o1, ret |-> RetNone, writes |-> Modified(orgs[t], o1), pwrites |-> 0],
                FALSE)

\* team_id values: valid, padded, None, empty, with an injection character, with a
\* character outside the Slack format, one character over the length limit
RawTeamIds == {<<"T", "1">>, <<" ", "T", "1">>, NoneId, <<>>, <<"$", "g", "t">>,
               <<"T", ".", "1">>, Repeat("T", MAX_ID_LENGTH + 1)}

\* list_projects(team_id)
ListProjects(t, team_id) ==
    /\ now < MaxOps
    /\ sanitize_slack_id(team_id).ok => TenantOf(sanitize_slack_id(team_id).value) = t
    /\ Done("list_projects", t, NoChannel, "", team_id, NoText,
            list_projects(orgs[t], team_id), FALSE)

\* handle_mention(event, say, body) for "enable docs" / "disable docs"
MentionDocs(t, c, flag) ==
    /\ now < MaxOps
    /\ Done("handle_mention_docs", t, c, "use_project_context", PyBool(flag), NoText,
            handle_mention_docs(orgs[t], flag, c, impl),
            (c = NoChannel \/ get_channel_welcome_shown(orgs[t], c))
                /\ require_project_passes(orgs[t], c))

Init ==
    /\ orgs \in [Tenants -> InitDocs]
    /\ impl \in {"src", "bot"}
    /\ client = "OpenAI"
    /\ now = 0
    /\ last = NoLast
    /\ rate_limits = [t \in Tenants |-> NoRateDoc]
    /\ limiter = [max_requests |-> MaxMaxRequests, window_seconds |-> 120]
    /\ calls = <<>>
    /\ remaining = NoRemaining
    /\ ticks = 0
    /\ proc = [w \in Workers |-> Idle]
    /\ written = EmptyMap
    /\ extra = [t \in Tenants |-> <<>>]
    /\ bot_invocations_total = [t \in Tenants |-> 0]
    /\ mention = NoMention

Next ==
    \/ \E t \in Tenants, c \in Channels \cup {NoChannel} : GetSettings(t, c)
    \/ \E t \in Tenants, c \in Channels, text \in BindTexts : SetChannelProject(t, c, text)
    \/ \E t \in Tenants, c \in Channels \cup {NoChannel}, f \in UpdateFields, v \in Payloads :
          UpdateSettingsField(t, c, f, v)
    \/ \E t \in Tenants, c \in Channels \cup {NoChannel} : ShowBugReportTemplate(t, c)
    \/ \E t \in Tenants, c \in Channels \cup {NoChannel}, text \in EditTexts :
          EditBugReportTemplate(t, c, text)
    \/ \E t \in Tenants, c \in Channels : SetChannelWelcomeShown(t, c)
    \/ \E t \in Tenants, c \in Channels \cup {NoChannel} : MentionDocs(t, c, TRUE)
    \/ \E t \in Tenants : ListProjects(t, TeamId(t))

Spec == Init /\ [][Next]_vars

----------------------------------------------------------------------------
(* Claims, sequential specification *)

Pre == last.pre
Post == orgs[last.t]

\* the valid project channel c is bound to in document o, <<>> when there is none
ValidBound(o, c) ==
    LET raw == Get(o.cp, c, NoBinding).project
        n   == Strip(raw)
    IN  IF \/ n = <<>> \/ Contains(n, ".") \/ Contains(n, "$") \/ Contains(n, "{")
           \/ Contains(n, "}") \/ Len(n) > 128
        THEN <<>> ELSE n

C1_Case == last.upd /\ last.c # NoChannel /\ ValidBound(Pre, last.c) # <<>>

\* C1: _update_settings_field on a channel bound to a valid project P sets
\* projects[P][f] to v and leaves unchanged every other field of P, every other
\* project record, every channel binding and joined_date.
C1_UpdateFieldFrame ==
    C1_Case =>
        LET P   == ValidBound(Pre, last.c)
            old == Get(Pre.projects, P, EmptyMap)
        IN  /\ P \in DOMAIN Post.projects
            /\ DOMAIN Post.projects[P] = (DOMAIN old) \cup {last.f}
            /\ Post.projects[P][last.f] = last.v
            /\ \A g \in (DOMAIN old) \ {last.f} : Post.projects[P][g] = old[g]
            /\ DOMAIN Post.projects = (DOMAIN Pre.projects) \cup {P}
            /\ \A q \in (DOMAIN Pre.projects) \ {P} : Post.projects[q] = Pre.projects[q]
            /\ Post.cp = Pre.cp
            /\ Post.has_cp = Pre.has_cp
            /\ Post.jd = Pre.jd

\* C1 witness: a field write on a bound project that has sibling fields, in a
\* tenant that has another project.
C1_Witness ==
    /\ C1_Case
    /\ LET P == ValidBound(Pre, last.c)
       IN  /\ P \in DOMAIN Pre.projects
           /\ (DOMAIN Pre.projects[P]) \ {last.f} # {}
           /\ (DOMAIN Pre.projects) \ {P} # {}

C3_Case ==
    /\ last.op = "get_settings" /\ last.prev.op = "get_settings" /\ last.prev.c = last.c

\* C3: two consecutive get_settings(T, C) calls return identical records and the
\* second call leaves the store as the first call left it.
C3_ResolverIdempotent ==
    C3_Case => /\ last.ret = last.prev.ret
               /\ Post = Pre

\* C3 witness: the first of the two calls repaired the document and wrote the merged
\* project record.
C3_Witness ==
    /\ C3_Case
    /\ last.c # NoChannel
    /\ last.prev.pre # Pre
    /\ ValidBound(Pre, last.c) # <<>>
    /\ Get(last.prev.pre.projects, ValidBound(Pre, last.c), EmptyMap)
         # Pre.projects[ValidBound(Pre, last.c)]

C4_Case == last.op = "get_settings" /\ last.c # NoChannel

\* C4: get_settings for a channel returns every default key; a key stored under the
\* bound project keeps its stored value, a missing key has its default value.
C4_CompleteRecord ==
    C4_Case =>
        LET P      == ValidBound(Pre, last.c)
            stored == IF P = <<>> THEN EmptyMap ELSE Get(Pre.projects, P, EmptyMap)
            s      == last.ret.settings
        IN  /\ last.ret.kind = "settings"
            /\ DOMAIN PROJECT_DEFAULTS \subseteq DOMAIN s
            /\ \A k \in DOMAIN stored : k \in DOMAIN s /\ s[k] = stored[k]
            /\ \A k \in (DOMAIN PROJECT_DEFAULTS) \ (DOMAIN stored) : s[k] = PROJECT_DEFAULTS[k]

\* C4 witness: the stored record lacks a default key and holds a non-default value.
C4_Witness ==
    /\ C4_Case
    /\ LET P == ValidBound(Pre, last.c)
       IN  /\ P # <<>>
           /\ P \in DOMAIN Pre.projects
           /\ (DOMAIN PROJECT_DEFAULTS) \ (DOMAIN Pre.projects[P]) # {}
           /\ \E k \in DOMAIN Pre.projects[P] :
                 k \in DOMAIN PROJECT_DEFAULTS /\ Pre.projects[P][k] # PROJECT_DEFAULTS[k]

\* the channel has no bound project: no binding, or a binding record without a project
Unbound(o, c) == Get(o.cp, c, NoBinding).project = <<>>

C5_Case == last.op = "get_settings" /\ last.c # NoChannel /\ Unbound(Pre, last.c)

\* C5 as claimed: get_settings for an unbound channel returns the default record and
\* leaves the store equal to the store before the call, with or without an existing
\* organization record.
C5_Original ==
    C5_Case => /\ last.ret = RetSettings(PROJECT_DEFAULTS)
               /\ Post = Pre

\* the organization record needs no repair
OrgComplete(o) == o.exists /\ o.jd.kind = "str" /\ o.has_cp

\* C5 amended: get_settings for an unbound channel returns the default record and
\* writes no project record and no channel binding; the store is unchanged when the
\* organization record exists and needs no repair, otherwise the only change is the
\* creation or repair of the organization record.
C5_UnboundNoProjectWrite ==
    C5_Case => /\ last.ret = RetSettings(PROJECT_DEFAULTS)
               /\ last.pwrites = 0
               /\ Post.projects = Pre.projects
               /\ Post.cp = Pre.cp
               /\ OrgComplete(Pre) => Post = Pre
               /\ OrgComplete(Post)

\* C5 witness: an unbound channel of a tenant that has projects and another, bound
\* channel.
C5_Witness ==
    /\ C5_Case
    /\ OrgComplete(Pre)
    /\ DOMAIN Pre.projects # {}
    /\ \E c \in Channels : ~Unbound(Pre, c)

C6_Case == last.op = "get_settings"

\* C6 as claimed: a single get_settings call performs at most one corrective write in
\* total.
C6_Original == C6_Case => last.writes <= 1

\* the merge of get_settings adds default keys to the bound project's stored record
MergeAddsKeys(o, c) ==
    /\ c # NoChannel
    /\ ValidBound(o, c) # <<>>
    /\ ~(DOMAIN PROJECT_DEFAULTS \subseteq DOMAIN Get(o.projects, ValidBound(o, c), EmptyMap))

\* C6 amended: a single get_settings call writes the project record exactly once when
\* the merge adds missing default keys, all of them in that one write, and not at all
\* otherwise; the repairs of the organization record are separate writes, and the
\* call makes at most two writes in total.
C6_OneProjectWrite ==
    C6_Case =>
        /\ last.writes <= 2
        /\ IF MergeAddsKeys(Pre, last.c)
           THEN /\ last.pwrites = 1
                /\ LET P == ValidBound(Pre, last.c)
                   IN  Post.projects =
                         Put(Pre.projects, P, Merge(PROJECT_DEFAULTS, Get(Pre.projects, P, EmptyMap)))
           ELSE /\ last.pwrites = 0
                /\ Post.projects = Pre.projects

\* C6 witness: the call repaired the organization record and completed the project
\* record, two writes.
C6_Witness ==
    /\ C6_Case
    /\ MergeAddsKeys(Pre, last.c)
    /\ last.writes = 2
    /\ Cardinality((DOMAIN PROJECT_DEFAULTS) \ (DOMAIN Get(Pre.projects, ValidBound(Pre, last.c), EmptyMap))) >= 2

C8_Case ==
    /\ last.op = "set_channel_project"
    /\ last.ret.msg = MsgBound
    /\ Get(Pre.cp, last.c, NoBinding) # NoBinding
    /\ Get(Pre.cp, last.c, NoBinding).kind = "dict"
    /\ Get(Pre.cp, last.c, NoBinding).ws = "true"

\* C8: set_channel_project on a channel whose binding record has welcome_shown = true
\* yields a binding with the new project and welcome_shown = true.
C8_WelcomePreserved ==
    C8_Case => /\ last.c \in DOMAIN Post.cp
               /\ Post.cp[last.c] = DictBinding(last.ret.text, "true")
               /\ last.ret.text = Strip(last.text.after)

\* C8 witness: a second rebinding in a row, from one project to another.
C8_Witness ==
    /\ C8_Case
    /\ Pre.cp[last.c].project \notin {<<>>, last.ret.text}
    /\ last.prev.op = "set_channel_project"
    /\ last.prev.c = last.c
    /\ last.prev.ret.msg = MsgBound
    /\ Get(last.prev.pre.cp, last.c, NoBinding).ws = "true"

C9_AfterBind ==
    /\ last.op = "show_bug_report_template"
    /\ last.prev.op = "set_channel_project"
    /\ last.prev.ret.msg = MsgBound
    /\ last.prev.c = last.c

C9_AfterEdit ==
    /\ last.op = "show_bug_report_template"
    /\ last.expect.on
    /\ last.expect.t = last.t
    /\ last.expect.c = last.c

\* C9 as claimed: after set_channel_project binds the channel, show_bug_report_template
\* returns the four-line default template; after edit_bug_report_template stores v,
\* every following show returns v until the next write of the field.
C9_Original ==
    /\ C9_AfterBind => last.ret = RetMsg(MsgTemplate, DefaultTemplate)
    /\ C9_AfterEdit => last.ret = RetMsg(MsgTemplate, last.expect.v)

\* C9 amended: after set_channel_project binds the channel to a project that has no
\* stored bug_report_template (a new project, or a record written before the key
\* existed), show_bug_report_template returns the four-line default template; after
\* edit_bug_report_template stores v, every following show returns v until the next
\* write of the field or rebinding of the channel, however many reads intervene.
C9_TemplateRoundTrip ==
    /\ (/\ C9_AfterBind
        /\ "bug_report_template" \notin
              DOMAIN Get(last.prev.pre.projects, last.prev.ret.text, EmptyMap))
          => last.ret = RetMsg(MsgTemplate, DefaultTemplate)
    /\ C9_AfterEdit => last.ret = RetMsg(MsgTemplate, last.expect.v)

\* C9 witness: the second show in a row after an edit stored a payload that is not the
\* default template.
C9_Witness ==
    /\ C9_AfterEdit
    /\ last.prev.op = "show_bug_report_template"
    /\ last.prev.c = last.c
    /\ last.expect.v # DefaultTemplate
    /\ last.ret.text = last.expect.v

\* The sanitizer's rejection rule, stated on the raw name.
BadRaw(raw) ==
    LET n == Strip(raw)
    IN  \/ n = <<>>
        \/ \E ch \in {".", "$", "{", "}"} : Contains(n, ch)
        \/ Len(n) > 128

C10_Case == last.op = "set_channel_project" /\ BadRaw(last.text.after)

\* C10: for a raw project name that after trimming is empty, contains '.', '$', '{' or
\* '}', or is longer than 128 characters, sanitize_project_name fails and
\* set_channel_project returns a user-facing error message without any storage write.
C10_InvalidNameNoWrite ==
    C10_Case => /\ ~sanitize_project_name(last.text.after).ok
                /\ last.ret.kind = "msg"
                /\ last.ret.msg \in {MsgProvideName, MsgInvalidName}
                /\ last.writes = 0
                /\ Post = Pre

\* C10 witness: a name one character over the limit, on a channel that is bound, in a
\* tenant that has projects.
C10_Witness ==
    /\ C10_Case
    /\ Len(Strip(last.text.after)) = 129
    /\ ~Unbound(Pre, last.c)
    /\ DOMAIN Pre.projects # {}

\* the binding of channel c in document o names a project that fails sanitize_project_name
InvalidBound(o, c) == ~Unbound(o, c) /\ ValidBound(o, c) = <<>>

C11_Case == last.op = "update_settings_field" /\ last.c # NoChannel /\ InvalidBound(Pre, last.c)

\* C11 as claimed: when the binding stored for the channel names a project that fails
\* sanitize_project_name, _update_settings_field returns without raising and applies no
\* write at all: no project record, the one named "default" included, is changed.
C11_AsClaimed ==
    C11_Case => /\ last.ret.kind # "raise"
                /\ last.writes = 0
                /\ Post = Pre

C12_Case ==
    /\ last.op = "update_settings_field"
    /\ last.c = NoChannel \/ Unbound(Pre, last.c)

\* C12: when channel_id is absent, or present but not bound to any project,
\* _update_settings_field writes v to projects["default"][f], creating the "default"
\* project and the organization record when missing, and changes no other field of
\* "default", no other project and no channel binding.
C12_DefaultProjectWrite ==
    C12_Case =>
        LET old == Get(Pre.projects, default_project, EmptyMap)
        IN  /\ last.ret.kind # "raise"
            /\ Post.exists
            /\ default_project \in DOMAIN Post.projects
            /\ DOMAIN Post.projects[default_project] = (DOMAIN old) \cup {last.f}
            /\ Post.projects[default_project][last.f] = last.v
            /\ \A g \in (DOMAIN old) \ {last.f} : Post.projects[default_project][g] = old[g]
            /\ DOMAIN Post.projects = (DOMAIN Pre.projects) \cup {default_project}
            /\ \A q \in (DOMAIN Pre.projects) \ {default_project} :
                  Post.projects[q] = Pre.projects[q]
            /\ Post.cp = Pre.cp
            /\ Post.has_cp = Pre.has_cp
            /\ Post.jd = Pre.jd

\* C12 witness: a write without channel for a tenant that has no organization record.
C12_Witness ==
    /\ C12_Case
    /\ last.c = NoChannel
    /\ ~Pre.exists
    /\ Post.exists

GatedOps == {"show_bug_report_template", "edit_bug_report_template", "handle_mention_docs"}

\* a gated command issued in a present, unbound channel that has had its welcome
C16_Case ==
    /\ last.op \in GatedOps
    /\ last.c # NoChannel
    /\ Unbound(Pre, last.c)
    /\ get_channel_welcome_shown(Pre, last.c)

\* C16 as claimed: a project-scoped command issued in a channel that is present but
\* unbound performs no settings mutation, and the reply sent to the user is the
\* bind-a-project-first message.
C16_AsClaimed ==
    C16_Case => /\ Post = Pre
                /\ last.ret = RetMsg(MsgNoProject, <<>>)

\* the name set_channel_project was given, trimmed
C20_Name == Strip(strip_command(last.text.before, last.text.after))

\* the names in a list_projects reply
C20_Listed(text) == {text[i] : i \in 1..Len(text)}

\* C20: after set_channel_project(T, C, name) returns its confirmation, channel C is
\* bound to the trimmed name, projects[name] exists with every default key, and
\* list_projects(T) lists the name; list_projects returns all project names of the
\* tenant in lexicographic order, and the guidance message when the tenant has none.
C20_BindThenList ==
    /\ (last.op = "set_channel_project" /\ last.ret.msg = MsgBound) =>
           /\ get_channel_project_name(orgs[last.t], last.c) = C20_Name
           /\ C20_Name \in DOMAIN orgs[last.t].projects
           /\ DOMAIN PROJECT_DEFAULTS \subseteq DOMAIN orgs[last.t].projects[C20_Name]
           /\ C20_Name \in C20_Listed(list_projects(orgs[last.t], TeamId(last.t)).ret.text)
    /\ (last.op = "list_projects" /\ last.fail.at = "none" /\ sanitize_slack_id(last.v).ok) =>
           /\ orgs[last.t] = last.pre
           /\ IF DOMAIN last.pre.projects = {}
              THEN last.ret.msg = MsgNoProjects
              ELSE /\ last.ret.msg = MsgProjects
                   /\ C20_Listed(last.ret.text) = DOMAIN last.pre.projects
                   /\ Len(last.ret.text) = Cardinality(DOMAIN last.pre.projects)
                   /\ \A i, j \in 1..Len(last.ret.text) :
                          i < j => StrLess(last.ret.text[i], last.ret.text[j])

\* a listing of two or more names, asked right after a confirmed binding
C20_Witness ==
    /\ last.op = "list_projects"
    /\ last.ret.msg = MsgProjects
    /\ Len(last.ret.text) >= 2
    /\ last.prev.op = "set_channel_project"
    /\ last.prev.ret.msg = MsgBound
    /\ get_channel_project_name(orgs[last.t], last.prev.c) \in C20_Listed(last.ret.text)

\* the document with channel c's bare-string binding stored as a structured record
\* {"project": S} (ws "absent") or {"project": S, "welcome_shown": ws}
C21_AsDict(o, c, ws) ==
    IF c \in DOMAIN o.cp /\ o.cp[c].kind = "str"
    THEN [o EXCEPT !.cp = Put(o.cp, c, DictBinding(o.cp[c].project, ws))]
    ELSE o

\* two handler results are the same up to the shape of channel c's binding
C21_Same(r1, r2, c, ws) ==
    /\ r1.ret = r2.ret
    /\ r1.writes = r2.writes
    /\ r1.pwrites = r2.pwrites
    /\ C21_AsDict(r1.o, c, ws) = r2.o

\* C21: for every channel whose stored binding is a bare project-name string S or a
\* structured record with project = S, get_settings, get_channel_project_name,
\* _require_project and _update_settings_field resolve the channel to the same project
\* and produce the same results and the same writes in both shapes.
C21_ShapesAgree ==
    \A t \in Tenants, c \in Channels, ws \in {"absent", "true", "false"} :
        (c \in DOMAIN orgs[t].cp /\ orgs[t].cp[c].kind = "str") =>
            LET o1 == orgs[t]
                o2 == C21_AsDict(orgs[t], c, ws)
            IN  /\ o2.cp[c].kind = "dict"
                /\ ResolvedProject(o1, c) = ResolvedProject(o2, c)
                /\ \A gen \in {"src", "bot"} :
                       /\ C21_Same(get_settings(o1, c, now, gen),
                                   get_settings(o2, c, now, gen), c, ws)
                       /\ UpdateTarget(o1, c, gen) = UpdateTarget(o2, c, gen)
                       /\ \A f \in UpdateFields, v \in Payloads :
                              C21_Same(update_settings_field(o1, c, f, v, gen),
                                       update_settings_field(o2, c, f, v, gen), c, ws)
                /\ get_channel_project_name(o1, c) = get_channel_project_name(o2, c)
                /\ require_project_passes(o1, c) = require_project_passes(o2, c)

\* a field update has just been routed through a bare-string binding
C21_Witness ==
    /\ last.op = "update_settings_field"
    /\ last.c \in DOMAIN last.pre.cp
    /\ last.pre.cp[last.c].kind = "str"
    /\ orgs[last.t].cp[last.c].kind = "str"
    /\ last.f \in DOMAIN Get(orgs[last.t].projects, last.pre.cp[last.c].project, EmptyMap)

----------------------------------------------------------------------------
(* get_settings on a binding whose project name is invalid *)

\* The binding stored for channel c names a project that fails sanitize_project_name.
C29_InvalidBinding(o, c) ==
    /\ o.exists
    /\ BoundProjectRaw(o, c) # <<>>
    /\ ~sanitize_project_name(BoundProjectRaw(o, c)).ok

\* C29: when the binding stored for channel C names a project that fails
\* sanitize_project_name, get_settings(T, C) does not raise, returns the default
\* record and writes no project record. Stated for the call just made and for the
\* call either generation would make on every stored document.
C29_InvalidBindingDefaults ==
    /\ (last.op = "get_settings" /\ C29_InvalidBinding(last.pre, last.c))
          => /\ last.ret.kind = "settings"
             /\ last.ret.settings = PROJECT_DEFAULTS
             /\ last.pwrites = 0
             /\ orgs[last.t].projects = last.pre.projects
    /\ \A t \in Tenants, c \in Channels, gen \in {"src", "bot"} :
          C29_InvalidBinding(orgs[t], c)
             => LET r == get_settings(orgs[t], c, now, gen)
                IN  /\ r.ret.kind = "settings"
                    /\ r.ret.settings = PROJECT_DEFAULTS
                    /\ r.pwrites = 0
                    /\ r.o.projects = orgs[t].projects

\* get_settings has just run on a channel bound to an invalid name, in a document
\* that holds project records.
C29_Witness ==
    /\ last.op = "get_settings"
    /\ C29_InvalidBinding(last.pre, last.c)
    /\ last.ret.kind = "settings"
    /\ last.pre.projects # EmptyMap

----------------------------------------------------------------------------
(* Reading back a value written without a bound project *)

\* _update_settings_field has just run for tenant T with the channel absent or
\* unbound: the write went to the implicit "default" project
C36_Case ==
    /\ last.op = "update_settings_field"
    /\ last.c = NoChannel \/ Unbound(last.pre, last.c)
    /\ Get(Get(orgs[last.t].projects, default_project, EmptyMap), last.f, <<>>) = last.v

\* C36 as claimed: a value written while no project is bound is visible to reads in
\* the same context: after _update_settings_field(T, C, f, v) with C absent or
\* unbound, a following get_settings(T, C) returns v for f.
C36_AsClaimed ==
    C36_Case =>
        LET g == get_settings(orgs[last.t], last.c, now, impl)
        IN  last.f \in DOMAIN g.ret.settings /\ g.ret.settings[last.f] = last.v

\* What the following get_settings returns instead: {} without a channel, the
\* defaults for an unbound channel; the "default" project is never read.
C36_NeverRead ==
    C36_Case =>
        LET g == get_settings(orgs[last.t], last.c, now, impl)
        IN  g.ret.settings = IF last.c = NoChannel THEN EmptyMap ELSE PROJECT_DEFAULTS

----------------------------------------------------------------------------
(* set_channel_project and the existing project records *)

\* every value stored in record before is stored unchanged in record after
C37_Kept(before, after) ==
    \A k \in DOMAIN before : k \in DOMAIN after /\ after[k] = before[k]

\* C37: set_channel_project never deletes or resets an existing project: binding a
\* channel to a project that already exists leaves the stored values of that project
\* unchanged, and rebinding a channel from A to B leaves the record of A unchanged, so
\* that binding the channel to A again returns A's earlier settings.  Stated for the
\* call just made and for the binding either generation would make of every channel to
\* every existing project, followed by get_settings.
C37_BindKeepsProjects ==
    /\ last.op = "set_channel_project"
          => \A p \in DOMAIN last.pre.projects :
                /\ p \in DOMAIN orgs[last.t].projects
                /\ C37_Kept(last.pre.projects[p], orgs[last.t].projects[p])
                /\ p # ResolvedProject(orgs[last.t], last.c)
                      => orgs[last.t].projects[p] = last.pre.projects[p]
    /\ \A t \in Tenants, c \in Channels, gen \in {"src", "bot"} :
          \A p \in DOMAIN orgs[t].projects :
             LET r == set_channel_project(orgs[t], <<>>, <<" ">> \o p, c, now, gen)
                 g == get_settings(r.o, c, now, gen)
             IN  /\ r.ret.msg = MsgBound
                 /\ g.ret.settings = Merge(PROJECT_DEFAULTS, orgs[t].projects[p])
                 /\ \A q \in DOMAIN orgs[t].projects :
                       C37_Kept(orgs[t].projects[q], g.o.projects[q])

\* The channel, bound to another project, has just been bound again to an existing
\* project whose record holds a value that is not the default.
C37_Witness ==
    /\ last.op = "set_channel_project" /\ last.ret.msg = MsgBound
    /\ last.prev.op = "set_channel_project" /\ last.prev.c = last.c
    /\ LET p == ResolvedProject(orgs[last.t], last.c)
           q == ResolvedProject(last.pre, last.c)
       IN  /\ q # <<>> /\ q # p
           /\ p \in DOMAIN last.pre.projects
           /\ \E k \in DOMAIN last.pre.projects[p] :
                 k \in DOMAIN PROJECT_DEFAULTS /\ last.pre.projects[p][k] # PROJECT_DEFAULTS[k]

----------------------------------------------------------------------------
(* Binder specification: set_channel_project over the raw names of every class *)

Long128 == Repeat("A", MAX_PROJECT_NAME_LENGTH)
Long129 == Repeat("A", MAX_PROJECT_NAME_LENGTH + 1)

RawNames ==
    {<<>>, <<" ">>, <<"A">>, <<" ", "B", " ">>,
     <<".">>, <<"A", ".", "B">>, <<" ", ".", "A", " ">>,
     <<"$">>, <<"A", "$">>, <<"{", "A">>, <<"A", "}">>,
     Long128, <<" ">> \o Long128 \o <<" ">>, Long129, <<" ">> \o Long129}

NextBind ==
    \E t \in Tenants, text \in {Text(<<>>, raw) : raw \in RawNames} :
        SetChannelProject(t, "C1", text)

SpecBind == Init /\ [][NextBind]_vars

----------------------------------------------------------------------------
(* Limiter specification: sequential is_allowed calls of one tenant, and the clock *)

Windows == {120, 3720}
TickSteps == {90, 120, 3600}

IsAllowed(t, fail) ==
    /\ Len(calls) < MaxCalls
    /\ fail # "none" => StoreFails(rate_limits[t], limiter, now, fail)
    /\ LET r == is_allowed_failing(rate_limits[t], limiter, now, fail)
       IN  /\ rate_limits' = [rate_limits EXCEPT ![t] = r.doc]
           /\ calls' = Append(calls, [team_id |-> t, t |-> now, allowed |-> r.allowed,
                                      msg |-> r.msg, hours |-> r.hours, minutes |-> r.minutes,
                                      failed |-> fail # "none",
                                      would |-> is_allowed(rate_limits[t], limiter, now).allowed,
                                      pre |-> rate_limits[t]])
    /\ UNCHANGED <<orgs, impl, client, mention, now, last, limiter, remaining, ticks, concvars>>

GetRemainingRequests(t, fail) ==
    /\ remaining' = [called |-> TRUE, team_id |-> t,
                     value |-> get_remaining_requests(rate_limits[t], limiter, now, fail),
                     failed |-> fail # "none",
                     would |-> get_remaining_requests(rate_limits[t], limiter, now, "none"),
                     t |-> now, pre |-> rate_limits[t]]
    /\ UNCHANGED <<orgs, impl, client, mention, now, last, rate_limits, limiter, calls, ticks, concvars>>

Tick(d) ==
    /\ ticks < MaxTicks
    /\ now' = now + d
    /\ ticks' = ticks + 1
    /\ UNCHANGED <<orgs, impl, client, mention, last, rate_limits, limiter, calls, remaining, concvars>>

InitRL ==
    /\ orgs = [t \in Tenants |-> NoOrg]
    /\ impl = "bot"
    /\ client = "OpenAI"
    /\ now = 0
    /\ last = NoLast
    /\ rate_limits = [t \in Tenants |-> NoRateDoc]
    /\ limiter \in [max_requests : 0..MaxMaxRequests, window_seconds : Windows]
    /\ calls = <<>>
    /\ remaining = NoRemaining
    /\ ticks = 0
    /\ proc = [w \in Workers |-> Idle]
    /\ written = EmptyMap
    /\ extra = [t \in Tenants |-> <<>>]
    /\ bot_invocations_total = [t \in Tenants |-> 0]
    /\ mention = NoMention

NextRL ==
    \/ \E t \in Tenants, fail \in StoreOps \cup {"none"} : IsAllowed(t, fail)
    \/ \E t \in Tenants, fail \in {"find_one", "none"} : GetRemainingRequests(t, fail)
    \/ \E d \in TickSteps : Tick(d)

SpecRL == InitRL /\ [][NextRL]_vars

\* call i is made inside the window that the first call opened
InFirstWindow(i) == calls[i].t < calls[1].t + limiter.window_seconds

\* no store operation of an is_allowed call has failed
NoStorageErrors == \A i \in 1..Len(calls) : ~calls[i].failed

\* C7 as claimed, for a maximum M >= 1 and no storage errors: the first M calls inside one window are
\* allowed, the (M+1)-th call inside that window is denied with a message carrying a
\* positive wait time in hours and/or minutes, and a call made once the window has
\* elapsed since the call before it is allowed.
C7_AsClaimed ==
    (limiter.max_requests >= 1 /\ NoStorageErrors) =>
        LET M == limiter.max_requests
        IN  /\ \A i \in 1..Len(calls) : (i <= M /\ InFirstWindow(i)) => calls[i].allowed
            /\ (Len(calls) >= M + 1 /\ InFirstWindow(M + 1)) =>
                  /\ ~calls[M + 1].allowed
                  /\ calls[M + 1].msg
                  /\ calls[M + 1].hours > 0 \/ calls[M + 1].minutes > 0
            /\ \A i \in 2..Len(calls) :
                  calls[i].t - calls[i - 1].t >= limiter.window_seconds => calls[i].allowed

\* C15: when a store operation fails during is_allowed the call returns allowed, with
\* no message; when the store operation of get_remaining_requests fails it returns the
\* configured maximum.
C15_FailOpen ==
    /\ \A i \in 1..Len(calls) : calls[i].failed => (calls[i].allowed /\ ~calls[i].msg)
    /\ remaining.failed => remaining.value = limiter.max_requests

\* C15 witness: a store failure in an is_allowed call that would have been denied, then
\* one in a get_remaining_requests call that would have returned less than the maximum.
C15_Witness ==
    /\ \E i \in 1..Len(calls) : calls[i].failed /\ ~calls[i].would
    /\ remaining.failed
    /\ remaining.would < limiter.max_requests

\* the last is_allowed call made
C26_Call == calls[Len(calls)]

\* the timestamps of a request list that are not older than window_start
C26_InWindow(requests, window_start) ==
    LET Keep(r) == r.t >= window_start IN SelectSeq(requests, Keep)

\* C26 as claimed: after every is_allowed check (allowed or denied, sequential calls, no
\* storage error) the stored request list of that key contains no timestamp older than
\* the window start of that check; an allowed check persists exactly the retained
\* in-window timestamps followed by the current time.
C26_AsClaimed ==
    (Len(calls) > 0 /\ NoStorageErrors) =>
        LET window_start == C26_Call.t - limiter.window_seconds
            stored == rate_limits[C26_Call.team_id].requests
        IN  /\ \A i \in 1..Len(stored) : stored[i].t >= window_start
            /\ C26_Call.allowed =>
                   stored = Append(C26_InWindow(C26_Call.pre.requests, window_start),
                                   Stamp(C26_Call.t))

\* C27 as claimed: with sequential calls for one tenant and no storage errors, for every
\* configured maximum M >= 0 and every spacing of calls, the number of allowed requests
\* whose timestamps are retained as in-window by the limiter's own pruning rule never
\* exceeds M in any reachable state.
C27_AsClaimed ==
    NoStorageErrors =>
        \A t \in Tenants :
            Len(C26_InWindow(rate_limits[t].requests, now - limiter.window_seconds))
                <= limiter.max_requests

\* what C30 asks get_remaining_requests to return for a stored document at instant t
C30_Expected(doc, t) ==
    IF ~doc.exists THEN limiter.max_requests
    ELSE LET n == limiter.max_requests
                  - Len(C26_InWindow(doc.requests, t - limiter.window_seconds))
         IN  IF n > 0 THEN n ELSE 0

\* the value part of C30, on the recorded call and on every reachable record
C30_Values ==
    /\ (remaining.called /\ ~remaining.failed) =>
           /\ remaining.value = C30_Expected(remaining.pre, remaining.t)
           /\ remaining.value > 0 => is_allowed(remaining.pre, limiter, remaining.t).allowed
    /\ \A t \in Tenants :
           LET r == get_remaining_requests(rate_limits[t], limiter, now, "none")
           IN  /\ r = C30_Expected(rate_limits[t], now)
               /\ r > 0 => is_allowed(rate_limits[t], limiter, now).allowed

\* C30: get_remaining_requests(T) never modifies the rate-limit record and returns
\* max(0, M minus the number of stored timestamps inside the window), or M when the key
\* has no record; whenever it is positive, an is_allowed(T) call at the same instant is
\* allowed.
C30_Remaining ==
    /\ []C30_Values
    /\ [][remaining' # remaining => rate_limits' = rate_limits]_vars

\* get_remaining_requests has answered 0 for a record holding more than M timestamps
\* inside the window, and a positive number before that
C30_Witness ==
    /\ remaining.called
    /\ ~remaining.failed
    /\ remaining.value = 0
    /\ Len(remaining.pre.requests) > limiter.max_requests
    /\ limiter.max_requests > 0

----------------------------------------------------------------------------
(* Concurrent specification: every store operation of a handler is one step, and the
   steps of the workers interleave. now counts the calls started. *)

ConcDocs == {NoOrg, LegacyStr, LegacyNoDate}
ConcNames == {NameA, NameB}

Goto(w, pc, org) == proc' = [proc EXCEPT ![w].pc = pc, ![w].org = org]
Store(t, o) == orgs' = [orgs EXCEPT ![t] = o]
At(w, pc) == proc[w].pc = pc

StartCall(w, op, pc, t, c, f, v, name) ==
    /\ At(w, "idle")
    /\ now < MaxOps
    /\ now' = now + 1
    /\ proc' = [proc EXCEPT ![w] = [pc |-> pc, op |-> op, t |-> t, c |-> c, f |-> f, v |-> v,
                                    name |-> name, joined_date_str |-> 0, org |-> NoOrg,
                                    at |-> 0, doc |-> NoRateDoc, overlap |-> FALSE]]
    /\ UNCHANGED <<orgs, impl, client, mention, last, rlvars, written, metricsvars>>

StartGetSettings(w, t, c) == StartCall(w, "get_settings", "ensure", t, c, "", <<>>, <<>>)

StartUpdateSettingsField(w, t, c, f, v) ==
    StartCall(w, "update_settings_field", "uf_find", t, c, f, v, <<>>)

\* set_channel_project with a name that passed sanitize_project_name
StartSetChannelProject(w, t, c, name) ==
    /\ sanitize_project_name(name).ok
    /\ StartCall(w, "set_channel_project", "sp_find", t, c, "", <<>>,
                 sanitize_project_name(name).value)

\* get_settings: the $setOnInsert upsert
StepEnsureOrg(w) ==
    /\ At(w, "ensure")
    /\ Store(proc[w].t, EnsureOrg(orgs[proc[w].t], now))
    /\ proc' = [proc EXCEPT ![w].pc = IF impl = "src" THEN "backfill" ELSE "fetch",
                            ![w].joined_date_str = now]
    /\ UNCHANGED <<impl, client, mention, now, last, rlvars, written, metricsvars>>

\* get_settings (src): the conditional joined_date backfill
StepBackfillJoinedDate(w) ==
    /\ At(w, "backfill")
    /\ Store(proc[w].t, BackfillJoinedDate(orgs[proc[w].t], now))
    /\ Goto(w, "ensure_cp", proc[w].org)
    /\ UNCHANGED <<impl, client, mention, now, last, rlvars, written, metricsvars>>

\* get_settings (src): the conditional channel_projects creation
StepEnsureChannelProjects(w) ==
    /\ At(w, "ensure_cp")
    /\ Store(proc[w].t, EnsureChannelProjects(orgs[proc[w].t]))
    /\ Goto(w, "fetch", proc[w].org)
    /\ UNCHANGED <<impl, client, mention, now, last, rlvars, written, metricsvars>>

\* get_settings: org = orgs.find_one(...)
StepFetch(w) ==
    /\ At(w, "fetch")
    /\ LET org == orgs[proc[w].t]
           uf  == BotUpdateFields(org, proc[w].joined_date_str)
       IN  Goto(w, IF impl = "src"
                   THEN (IF org.exists /\ org.jd.kind = "date" THEN "convert" ELSE "persist")
                   ELSE (IF org.exists /\ (uf.set_cp \/ uf.set_jd) THEN "repair" ELSE "persist"),
                org)
    /\ UNCHANGED <<orgs, impl, client, mention, now, last, rlvars, written, metricsvars>>

\* get_settings (src): the datetime conversion of joined_date
StepConvertJoinedDate(w) ==
    /\ At(w, "convert")
    /\ Store(proc[w].t, ConvertJoinedDate(orgs[proc[w].t], proc[w].org))
    /\ Goto(w, "refetch", proc[w].org)
    /\ UNCHANGED <<impl, client, mention, now, last, rlvars, written, metricsvars>>

\* get_settings (src): the refetch after the conversion
StepRefetch(w) ==
    /\ At(w, "refetch")
    /\ Goto(w, "persist", orgs[proc[w].t])
    /\ UNCHANGED <<orgs, impl, client, mention, now, last, rlvars, written, metricsvars>>

\* get_settings (bot): the single repair update, and org.update(update_fields)
StepRepairOrg(w) ==
    /\ At(w, "repair")
    /\ LET uf == BotUpdateFields(proc[w].org, proc[w].joined_date_str)
       IN  /\ Store(proc[w].t, BotRepairOrg(orgs[proc[w].t], uf))
           /\ Goto(w, "persist", BotRepairOrg(proc[w].org, uf))
    /\ UNCHANGED <<impl, client, mention, now, last, rlvars, written, metricsvars>>

\* get_settings: resolve and merge from the fetched document, persist the merge
StepPersist(w) ==
    /\ At(w, "persist")
    /\ Store(proc[w].t, ResolveSettings(orgs[proc[w].t], proc[w].org, proc[w].c, 0).o)
    /\ proc' = [proc EXCEPT ![w] = Idle]
    /\ UNCHANGED <<impl, client, mention, now, last, rlvars, written, metricsvars>>

\* _update_settings_field: org = orgs.find_one(...) or {}
StepUpdateFind(w) ==
    /\ At(w, "uf_find")
    /\ Goto(w, "uf_write", orgs[proc[w].t])
    /\ UNCHANGED <<orgs, impl, client, mention, now, last, rlvars, written, metricsvars>>

\* _update_settings_field: the field write, to the project the fetched document names
StepUpdateWrite(w) ==
    /\ At(w, "uf_write")
    /\ LET tgt == UpdateTarget(proc[w].org, proc[w].c, impl)
       IN  IF tgt.skip
           THEN UNCHANGED <<orgs, written>>
           ELSE /\ Store(proc[w].t, FieldWrite(orgs[proc[w].t], tgt.name, proc[w].f, proc[w].v))
                /\ written' = Put(written, <<proc[w].t, tgt.name, proc[w].f>>, proc[w].v)
    /\ proc' = [proc EXCEPT ![w] = Idle]
    /\ UNCHANGED <<impl, client, mention, now, last, rlvars, metricsvars>>

\* set_channel_project: org = orgs.find_one(..., {"channel_projects": 1}) or {}
StepBindFind(w) ==
    /\ At(w, "sp_find")
    /\ Goto(w, "sp_bind", orgs[proc[w].t])
    /\ UNCHANGED <<orgs, impl, client, mention, now, last, rlvars, written, metricsvars>>

\* set_channel_project: the binding write; get_settings follows
StepBindWrite(w) ==
    /\ At(w, "sp_bind")
    /\ Store(proc[w].t,
             SetBinding(Upserted(orgs[proc[w].t]), proc[w].c,
                        BindingUpdate(Get(proc[w].org.cp, proc[w].c, NoBinding), proc[w].name)))
    /\ Goto(w, "ensure", proc[w].org)
    /\ UNCHANGED <<impl, client, mention, now, last, rlvars, written, metricsvars>>

\* set_channel_welcome_shown: one update_one
StepSetChannelWelcomeShown(t, c) ==
    /\ now < MaxOps
    /\ now' = now + 1
    /\ Store(t, set_channel_welcome_shown(orgs[t], c, TRUE))
    /\ UNCHANGED <<impl, client, mention, last, rlvars, proc, written, metricsvars>>

\* increment_bot_invocations: one update_one
StepIncrementBotInvocations(t) ==
    /\ now < MaxOps
    /\ now' = now + 1
    /\ Store(t, increment_bot_invocations(orgs[t]))
    /\ bot_invocations_total' = [bot_invocations_total EXCEPT ![t] = @ + 1]
    /\ UNCHANGED <<impl, client, mention, last, rlvars, proc, written, extra>>

StartInitOrGetOrg(w, t) == StartCall(w, "init_or_get_org", "io_find", t, NoChannel, "", <<>>, <<>>)

\* init_or_get_org: org = orgs.find_one(...)
StepInitFind(w) ==
    /\ At(w, "io_find")
    /\ LET org == orgs[proc[w].t]
           b   == InitOrGetOrgBranch(org)
       IN  IF b = "return" THEN proc' = [proc EXCEPT ![w] = Idle]
           ELSE Goto(w, IF b = "insert" THEN "io_insert" ELSE "io_repair", org)
    /\ UNCHANGED <<orgs, impl, client, mention, now, last, rlvars, written, metricsvars>>

\* init_or_get_org: orgs.insert_one(org); the collection has no unique index on team_id
StepInitInsert(w) ==
    /\ At(w, "io_insert")
    /\ LET t == proc[w].t
       IN  IF orgs[t].exists
           THEN /\ extra' = [extra EXCEPT ![t] = Append(@, NewOrg(now))]
                /\ UNCHANGED <<orgs, bot_invocations_total>>
           ELSE /\ Store(t, NewOrg(now))
                /\ bot_invocations_total' = [bot_invocations_total EXCEPT ![t] = 0]
                /\ UNCHANGED extra
    /\ proc' = [proc EXCEPT ![w] = Idle]
    /\ UNCHANGED <<impl, client, mention, now, last, rlvars, written>>

\* init_or_get_org: the joined_date backfill or conversion
StepInitRepair(w) ==
    /\ At(w, "io_repair")
    /\ Store(proc[w].t, InitOrGetOrgRepair(orgs[proc[w].t], proc[w].org, now))
    /\ proc' = [proc EXCEPT ![w] = Idle]
    /\ UNCHANGED <<impl, client, mention, now, last, rlvars, written, metricsvars>>

InitConc ==
    /\ orgs \in [Tenants -> ConcDocs]
    /\ impl \in {"src", "bot"}
    /\ client = "OpenAI"
    /\ now = 0
    /\ last = NoLast
    /\ rate_limits = [t \in Tenants |-> NoRateDoc]
    /\ limiter = [max_requests |-> MaxMaxRequests, window_seconds |-> 120]
    /\ calls = <<>>
    /\ remaining = NoRemaining
    /\ ticks = 0
    /\ proc = [w \in Workers |-> Idle]
    /\ written = EmptyMap
    /\ extra = [t \in Tenants |-> <<>>]
    /\ bot_invocations_total = [t \in Tenants |-> 0]
    /\ mention = NoMention

NextConc ==
    \/ \E w \in Workers, t \in Tenants : StartGetSettings(w, t, "C1")
    \/ \E w \in Workers, t \in Tenants, f \in UpdateFields, v \in Payloads :
          StartUpdateSettingsField(w, t, "C1", f, v)
    \/ \E w \in Workers, t \in Tenants, name \in ConcNames : StartSetChannelProject(w, t, "C1", name)
    \/ \E w \in Workers : StepEnsureOrg(w)
    \/ \E w \in Workers : StepBackfillJoinedDate(w)
    \/ \E w \in Workers : StepEnsureChannelProjects(w)
    \/ \E w \in Workers : StepFetch(w)
    \/ \E w \in Workers : StepConvertJoinedDate(w)
    \/ \E w \in Workers : StepRefetch(w)
    \/ \E w \in Workers : StepRepairOrg(w)
    \/ \E w \in Workers : StepPersist(w)
    \/ \E w \in Workers : StepUpdateFind(w)
    \/ \E w \in Workers : StepUpdateWrite(w)
    \/ \E w \in Workers : StepBindFind(w)
    \/ \E w \in Workers : StepBindWrite(w)
    \/ \E t \in Tenants : StepSetChannelWelcomeShown(t, "C1")
    \/ \E t \in Tenants : StepIncrementBotInvocations(t)
    \/ \E w \in Workers, t \in Tenants : StartInitOrGetOrg(w, t)
    \/ \E w \in Workers : StepInitFind(w)
    \/ \E w \in Workers : StepInitInsert(w)
    \/ \E w \in Workers : StepInitRepair(w)

SpecConc == InitConc /\ [][NextConc]_vars

AllFinished == \A w \in Workers : proc[w].pc = "idle"

\* C2 as claimed: once all operations have finished, every written field holds the
\* value last written to it, under every interleaving of the handlers' store steps.
C2_AsClaimed ==
    AllFinished =>
        \A k \in DOMAIN written :
            LET rec == Get(orgs[k[1]].projects, k[2], EmptyMap)
            IN  k[3] \in DOMAIN rec /\ rec[k[3]] = written[k]

\* C13 as claimed: under every interleaving of concurrent first-contact operations for
\* the same previously unknown tenant, once they have finished the store holds exactly
\* one organization record for that tenant.
C13_AsClaimed ==
    AllFinished => \A t \in Tenants : now > 0 => (orgs[t].exists /\ extra[t] = <<>>)

\* C14 as claimed: once a tenant's joined_date holds a string value it never changes
\* again, under any sequence or interleaving of operations.
C14_AsClaimed ==
    [][\A t \in Tenants : orgs[t].jd.kind = "str" => orgs'[t].jd = orgs[t].jd]_vars

\* welcome_shown of channel c in document o is true
C24_Shown(o, c) == c \in DOMAIN o.cp /\ o.cp[c].kind = "dict" /\ o.cp[c].ws = "true"

\* C24 as claimed: once a channel's welcome_shown flag is true it is true in every
\* later state, under every interleaving of set_channel_project and
\* set_channel_welcome_shown calls on that channel.
C24_AsClaimed ==
    [][\A t \in Tenants, c \in Channels : C24_Shown(orgs[t], c) => C24_Shown(orgs'[t], c)]_vars

----------------------------------------------------------------------------
(* Concurrent limiter specification: the find_one and the write of an is_allowed call
   are separate steps, and the calls of the workers interleave *)

\* is_allowed: sanitize, key, now = datetime.utcnow()
StartIsAllowed(w, t) ==
    /\ At(w, "idle")
    /\ Len(calls) + Cardinality({x \in Workers : ~At(x, "idle")}) < MaxCalls
    /\ LET busy == \E x \in Workers : ~At(x, "idle")
       IN  proc' = [x \in Workers |->
                       IF x = w
                       THEN [Idle EXCEPT !.pc = "rl_find", !.op = "is_allowed", !.t = t,
                                         !.at = now, !.overlap = busy]
                       ELSE IF At(x, "idle") THEN proc[x]
                       ELSE [proc[x] EXCEPT !.overlap = TRUE]]
    /\ UNCHANGED <<orgs, impl, client, mention, now, last, rlvars, written, metricsvars>>

\* is_allowed: rate_limits.find_one({"rate_limit_key": key})
StepRateFind(w) ==
    /\ At(w, "rl_find")
    /\ proc' = [proc EXCEPT ![w].pc = "rl_write", ![w].doc = rate_limits[proc[w].t]]
    /\ UNCHANGED <<orgs, impl, client, mention, now, last, rlvars, written, metricsvars>>

\* is_allowed after its find_one: the decision from the fetched document, then
\* insert_one (DuplicateKeyError under the unique index when a record has appeared:
\* caught, fail open), update_one with the whole list, or no write when denied
StepRateWrite(w) ==
    /\ At(w, "rl_write")
    /\ LET t   == proc[w].t
           r   == is_allowed(proc[w].doc, limiter, proc[w].at)
           dup == ~proc[w].doc.exists /\ rate_limits[t].exists
       IN  /\ rate_limits' = [rate_limits EXCEPT ![t] = IF dup \/ ~r.allowed THEN @ ELSE r.doc]
           /\ calls' = Append(calls, [team_id |-> t, t |-> proc[w].at,
                                      allowed |-> dup \/ r.allowed,
                                      msg |-> ~dup /\ r.msg, hours |-> r.hours,
                                      minutes |-> r.minutes, failed |-> dup,
                                      would |-> r.allowed, pre |-> proc[w].doc,
                                      overlap |-> proc[w].overlap])
    /\ proc' = [proc EXCEPT ![w] = Idle]
    /\ UNCHANGED <<orgs, impl, client, mention, now, last, limiter, remaining, ticks, written,
                   metricsvars>>

InitRLConc ==
    /\ orgs = [t \in Tenants |-> NoOrg]
    /\ impl = "bot"
    /\ client = "OpenAI"
    /\ now = 0
    /\ last = NoLast
    /\ rate_limits = [t \in Tenants |-> NoRateDoc]
    /\ limiter \in [max_requests : 0..MaxMaxRequests, window_seconds : {120}]
    /\ calls = <<>>
    /\ remaining = NoRemaining
    /\ ticks = 0
    /\ proc = [w \in Workers |-> Idle]
    /\ written = EmptyMap
    /\ extra = [t \in Tenants |-> <<>>]
    /\ bot_invocations_total = [t \in Tenants |-> 0]
    /\ mention = NoMention

NextRLConc ==
    \/ \E w \in Workers, t \in Tenants : StartIsAllowed(w, t)
    \/ \E w \in Workers : StepRateFind(w)
    \/ \E w \in Workers : StepRateWrite(w)
    \/ \E d \in TickSteps : Tick(d)

SpecRLConc == InitRLConc /\ [][NextRLConc]_vars

\* the allowed calls whose instants lie less than one window apart from the first of
\* them: the calls inside the window that call i opens
C25_InWindowOf(i) ==
    {j \in 1..Len(calls) : /\ calls[j].allowed
                           /\ calls[j].t >= calls[i].t
                           /\ calls[j].t < calls[i].t + limiter.window_seconds}

\* more than M requests have been allowed inside one window
C25_Exceeded ==
    \E i \in 1..Len(calls) :
        calls[i].allowed /\ Cardinality(C25_InWindowOf(i)) > limiter.max_requests

\* no call ran while another call was running
C25_Sequential == \A i \in 1..Len(calls) : ~calls[i].overlap

\* C25 as claimed, its sequential half: with strictly sequential is_allowed calls no
\* state is reachable in which more than M requests are allowed inside one window
\* (with two or more concurrent calls such a state is reachable).
C25_AsClaimed == C25_Sequential => ~C25_Exceeded

\* C25, the concurrent half: a limit of M >= 1 exceeded by calls that overlapped
C25_ExceededByOverlap ==
    /\ limiter.max_requests >= 1
    /\ C25_Exceeded
    /\ \E i \in 1..Len(calls) : calls[i].overlap

\* every worker has finished its call
C28_AllFinished == \A w \in Workers : At(w, "idle")

\* C28 as claimed: every is_allowed call that returns allowed has its timestamp in the
\* stored request list once the call has finished: under every interleaving of
\* concurrent callers for the same tenant, after all calls complete the stored list
\* holds one timestamp per allowed call inside the window.
C28_AsClaimed ==
    C28_AllFinished =>
        \A t \in Tenants :
            Len(C26_InWindow(rate_limits[t].requests, now - limiter.window_seconds))
                = Cardinality({i \in 1..Len(calls) :
                                  /\ calls[i].team_id = t
                                  /\ calls[i].allowed
                                  /\ calls[i].t >= now - limiter.window_seconds})

----------------------------------------------------------------------------
(* Identifier specification: list_projects over the team_id values of every class *)

\* the identifiers handed to sanitize_slack_id
RawIds == RawTeamIds \cup
          {NonStringId, <<" ">>, <<"T", "1", " ">>, <<"T", " ", "1">>, <<"a", "-", "_", "9">>,
           <<"{", "}">>, Repeat("T", MAX_ID_LENGTH), <<" ">> \o Repeat("T", MAX_ID_LENGTH)}

\* sanitize_slack_id(identifier, name, allow_none), called while handling a request of
\* tenant t
SanitizeSlackId(t, identifier, allow_none) ==
    /\ now < MaxOps
    /\ LET r == sanitize_slack_id_opt(identifier, allow_none)
       IN  last' = [NoLast EXCEPT !.op = "sanitize_slack_id", !.t = t, !.v = identifier,
                                  !.f = PyBool(allow_none), !.pre = orgs[t],
                                  !.ret = IF r.ok THEN RetMsg("ok", r.value)
                                          ELSE RetRaise(r.error)]
    /\ now' = now + 1
    /\ UNCHANGED <<orgs, impl, client, mention, rlvars, concvars>>

NextIds ==
    \/ \E t \in Tenants, team_id \in RawTeamIds : ListProjects(t, team_id)
    \/ \E t \in Tenants, identifier \in RawIds, allow_none \in BOOLEAN :
          SanitizeSlackId(t, identifier, allow_none)

SpecIds == Init /\ [][NextIds]_vars

\* the last command was given an identifier that sanitize_slack_id rejects
C17_Case == last.op = "list_projects" /\ ~sanitize_slack_id(last.v).ok

\* C17 as claimed: a tenant identifier rejected by sanitize_slack_id is reported as an
\* instructive message, causes no storage write, and does not leave the command
\* function as an exception.
C17_AsClaimed ==
    C17_Case => /\ last.ret.kind = "msg"
                /\ last.writes = 0
                /\ Post = Pre

----------------------------------------------------------------------------
(* Failure specification: commands in which one store operation raises *)

ShowBugReportTemplateFailing(t, c, at, error) ==
    /\ now < MaxOps
    /\ at = "gate" => c # NoChannel
    /\ at = "get_settings" => require_project_passes(orgs[t], c)
    /\ DoneFailing("show_bug_report_template", t, c, "", <<>>, NoText,
                   show_bug_report_template_failing(orgs[t], c, at, error), FALSE,
                   [at |-> at, error |-> error])

ListProjectsFailing(t, error) ==
    /\ now < MaxOps
    /\ DoneFailing("list_projects", t, NoChannel, "", TeamId(t), NoText,
                   list_projects_failing(orgs[t], error), FALSE,
                   [at |-> "find_one", error |-> error])

SetChannelProjectFailing(t, c, text, at, error) ==
    /\ now < MaxOps
    /\ sanitize_project_name(Strip(strip_command(text.before, text.after))).ok
    /\ DoneFailing("set_channel_project", t, c, "", <<>>, text,
                   set_channel_project_failing(orgs[t], text.before, text.after, c, at, error),
                   FALSE, [at |-> at, error |-> error])

NextFail ==
    \/ \E t \in Tenants, c \in Channels \cup {NoChannel}, at \in {"gate", "get_settings"},
          error \in StorageErrors : ShowBugReportTemplateFailing(t, c, at, error)
    \/ \E t \in Tenants, error \in StorageErrors : ListProjectsFailing(t, error)
    \/ \E t \in Tenants, c \in Channels, text \in BindTexts,
          at \in {"find_one", "update_one", "get_settings"}, error \in StorageErrors :
          SetChannelProjectFailing(t, c, text, at, error)
    \/ \E t \in Tenants, c \in Channels, text \in BindTexts : SetChannelProject(t, c, text)

SpecFail == Init /\ [][NextFail]_vars

\* C18 as claimed: a storage failure during a command, the failure of the gate's
\* bound-project lookup included, is returned as one of the generic storage-error
\* messages chosen by error category, and is not reported as some other condition.
C18_AsClaimed ==
    last.fail.at # "none" =>
        /\ last.ret.kind = "msg"
        /\ last.ret.msg = get_mongodb_error_message(last.fail.error)
        /\ last.ret.msg \in StorageErrorMsgs

----------------------------------------------------------------------------
(* set_channel_project answering a storage-error message *)

\* the last call of set_channel_project returned a storage-error message
C39_Case == last.op = "set_channel_project" /\ last.ret.msg \in StorageErrorMsgs

\* C39 as claimed: if set_channel_project returns a storage-error message instead of
\* its confirmation, the store is as it was before the call: the channel binding is not
\* changed, so a channel is never left bound to a project for which no settings record
\* was created.
C39_AsClaimed ==
    C39_Case =>
        /\ orgs[last.t] = last.pre
        /\ LET p == ResolvedProject(orgs[last.t], last.c)
           IN  p # ResolvedProject(last.pre, last.c) => p \in DOMAIN orgs[last.t].projects

\* What does hold: the store is as before when the operation that raised is the
\* find_one or the update_one of the binding.
C39_BeforeBindingWrite ==
    C39_Case /\ last.fail.at \in {"find_one", "update_one"} => orgs[last.t] = last.pre

----------------------------------------------------------------------------
(* Bug report generation: generate_bug_report and the OpenAI rate limiter *)

MsgNoClient   == "Bug report generation is temporarily unavailable: OpenAI API key is not configured."
MsgRateLimit  == "You've reached the daily limit of AI requests."
MsgTooLong    == "Your message is too long for bug report generation."
MsgAITimeout  == "The AI service took too long to respond."
MsgAIError    == "I couldn't generate a bug report due to an internal error talking to the AI service."
MsgAIEmpty    == "I couldn't generate a bug report from this message."
MsgBugReport  == "content"

MAX_BUG_REPORT_INPUT_LENGTH == 4000

\* len(text) of the requests
TextLengths == {1, MAX_BUG_REPORT_INPUT_LENGTH, MAX_BUG_REPORT_INPUT_LENGTH + 1}

\* what client.chat.completions.create does
AIOutcomes == {"APITimeoutError", "Exception", "empty", "content"}

AIReply(ai) ==
    IF ai = "APITimeoutError" THEN MsgAITimeout
    ELSE IF ai = "Exception" THEN MsgAIError
    ELSE IF ai = "empty" THEN MsgAIEmpty
    ELSE MsgBugReport

\* generate_bug_report(text, team_id, channel_id) at instant t: o the organization
\* document, doc the rate-limit document, length = len(text), cl the client, ai the
\* outcome of the OpenAI call.  The result carries both documents.
generate_bug_report(o, doc, lim, length, c, t, gen, cl, ai) ==
    IF ~require_project_passes(o, c)
    THEN [o |-> o, doc |-> doc, ret |-> RetMsg(MsgNoProject, <<>>), writes |-> 0, pwrites |-> 0]
    ELSE IF cl = "None"
    THEN [o |-> o, doc |-> doc, ret |-> RetMsg(MsgNoClient, <<>>), writes |-> 0, pwrites |-> 0]
    ELSE LET a == is_allowed(doc, lim, t)
         IN  IF ~a.allowed
             THEN [o |-> o, doc |-> a.doc, ret |-> RetMsg(MsgRateLimit, <<>>), writes |-> 0,
                   pwrites |-> 0]
             ELSE IF length > MAX_BUG_REPORT_INPUT_LENGTH
             THEN [o |-> o, doc |-> a.doc, ret |-> RetMsg(MsgTooLong, <<>>), writes |-> 0,
                   pwrites |-> 0]
             ELSE LET g == get_settings(o, c, t, gen)
                  IN  [o |-> g.o, doc |-> a.doc,
                       ret |-> IF {"use_project_context", "project_context",
                                   "bug_report_template"} \subseteq DOMAIN g.ret.settings
                               THEN RetMsg(AIReply(ai), <<>>)
                               \* settings["use_project_context"] is outside the try blocks
                               ELSE RetRaise("KeyError"),
                       writes |-> g.writes, pwrites |-> g.pwrites]

\* the replies of the precondition and validation checks
RejectMsgs == {MsgNoProject, MsgNoClient, MsgTooLong}

GenerateBugReport(t, c, length, ai) ==
    /\ now < MaxOps
    /\ LET r == generate_bug_report(orgs[t], rate_limits[t], limiter, length, c, now, impl,
                                    client, ai)
       IN  /\ orgs' = [orgs EXCEPT ![t] = r.o]
           /\ rate_limits' = [rate_limits EXCEPT ![t] = r.doc]
           /\ last' = [op |-> "generate_bug_report", t |-> t, c |-> c, f |-> "", v |-> <<>>,
                       text |-> NoText, ret |-> r.ret, pre |-> orgs[t], writes |-> r.writes,
                       pwrites |-> r.pwrites, upd |-> FALSE,
                       prev |-> [op |-> last.op, c |-> last.c, ret |-> last.ret,
                                 pre |-> last.pre],
                       expect |-> NoExpect, fail |-> NoFail]
    /\ now' = now + 1
    /\ UNCHANGED <<impl, client, mention, limiter, calls, remaining, ticks, concvars>>

InitGen ==
    /\ orgs \in [Tenants -> InitDocs]
    /\ impl \in {"src", "bot"}
    /\ client \in {"None", "OpenAI"}
    /\ now = 0
    /\ last = NoLast
    /\ rate_limits = [t \in Tenants |-> NoRateDoc]
    /\ limiter = [max_requests |-> MaxMaxRequests, window_seconds |-> 120]
    /\ calls = <<>>
    /\ remaining = NoRemaining
    /\ ticks = 0
    /\ proc = [w \in Workers |-> Idle]
    /\ written = EmptyMap
    /\ extra = [t \in Tenants |-> <<>>]
    /\ bot_invocations_total = [t \in Tenants |-> 0]
    /\ mention = NoMention

NextGen ==
    \/ \E t \in Tenants, c \in Channels \cup {NoChannel}, length \in TextLengths,
          ai \in AIOutcomes : GenerateBugReport(t, c, length, ai)
    \/ \E t \in Tenants, c \in Channels, text \in BindTexts : SetChannelProject(t, c, text)

SpecGen == InitGen /\ [][NextGen]_vars

\* C19 as claimed: a generate_bug_report request rejected by a precondition or
\* validation check (channel unbound, client not configured, input too long) performs
\* no mutation; in particular the tenant's rate-limit record gains no timestamp.
C19_AsClaimed ==
    [][(now' # now /\ last'.op = "generate_bug_report" /\ last'.ret.msg \in RejectMsgs)
          => (orgs' = orgs /\ rate_limits' = rate_limits)]_vars

\* what C22 asks of a value: a string that, trimmed, is non-empty, made of letters,
\* digits, hyphen and underscore, and at most 256 characters long
C22_Letters == {"A", "B", "C", "D", "E", "F", "G", "H", "I", "J", "K", "L", "M", "N", "O", "P",
                "Q", "R", "S", "T", "U", "V", "W", "X", "Y", "Z", "a", "b", "c", "d", "e", "f",
                "g", "h", "i", "j", "k", "l", "m", "n", "o", "p", "q", "r", "s", "t", "u", "v",
                "w", "x", "y", "z"}
C22_Digits == {"0", "1", "2", "3", "4", "5", "6", "7", "8", "9"}
C22_Valid(value) ==
    /\ value \notin {NoneId, NonStringId}
    /\ Strip(value) # <<>>
    /\ \A i \in 1..Len(Strip(value)) : Strip(value)[i] \in C22_Letters \cup C22_Digits \cup {"-", "_"}
    /\ Len(Strip(value)) <= 256

\* C22: sanitize_slack_id(value) succeeds exactly when value is a string that, after
\* trimming, is non-empty, consists only of letters, digits, hyphen and underscore and
\* is at most 256 characters long (an absent value is accepted only with allow_none);
\* on success it returns the trimmed value, it has no side effect, and applying it to
\* its own result returns the same value.
C22_SanitizeSlackId ==
    last.op = "sanitize_slack_id" =>
        LET allow_none == (last.f = "True")
            ok == last.ret.kind # "raise"
        IN  /\ ok <=> (C22_Valid(last.v) \/ (last.v = NoneId /\ allow_none))
            /\ (ok /\ last.v # NoneId) => last.ret.text = Strip(last.v)
            /\ (ok /\ last.v = NoneId) => last.ret.text = NoneId
            /\ ok => /\ sanitize_slack_id_opt(last.ret.text, allow_none).ok
                     /\ sanitize_slack_id_opt(last.ret.text, allow_none).value = last.ret.text
            /\ orgs[last.t] = last.pre

\* an identifier with surrounding whitespace has been accepted and trimmed
C22_Witness ==
    /\ last.op = "sanitize_slack_id"
    /\ last.ret.kind = "msg"
    /\ last.v # last.ret.text
    /\ Len(last.ret.text) = 256

----------------------------------------------------------------------------
(* Jira settings commands: set_jira_url, show_jira_bug_query *)

MsgJiraProvide     == "Please provide a Jira URL."
MsgJiraScheme      == "Jira URL should start with http:// or https://."
MsgJiraTooLong     == "Jira URL is too long."
MsgJiraUpdated     == "Jira URL has been updated."
MsgJiraQueryNotSet == "Jira bug query is not set."
MsgJiraQuery       == "Current Jira bug query:"

MAX_URL_LENGTH == 2048

UpperCase == <<"A", "B", "C", "D", "E", "F", "G", "H", "I", "J", "K", "L", "M", "N", "O", "P", "Q",
               "R", "S", "T", "U", "V", "W", "X", "Y", "Z">>
LowerCase == <<"a", "b", "c", "d", "e", "f", "g", "h", "i", "j", "k", "l", "m", "n", "o", "p", "q",
               "r", "s", "t", "u", "v", "w", "x", "y", "z">>

\* ch.lower() for the upper-case letters
ToLower == [ch \in {UpperCase[k] : k \in 1..26} |->
               LowerCase[CHOOSE k \in 1..26 : UpperCase[k] = ch]]

\* str.lower()
Lower(s) == [i \in 1..Len(s) |-> IF s[i] \in DOMAIN ToLower THEN ToLower[s[i]] ELSE s[i]]

\* s.startswith(prefix)
StartsWith(s, prefix) == Len(s) >= Len(prefix) /\ SubSeq(s, 1, Len(prefix)) = prefix

Http  == <<"h", "t", "t", "p", ":", "/", "/">>
Https == <<"h", "t", "t", "p", "s", ":", "/", "/">>

\* the zero-width characters the command removes; "ZWSP" stands for U+200B
Invisible == {"ZWSP"}
IsVisible(ch) == ch \notin Invisible

\* url[1:url.index('|')] or url[1:-1] for a Slack link <url|text> or <url>
UnwrapSlackLink(url) ==
    IF url # <<>> /\ Head(url) = "<" /\ url[Len(url)] = ">"
    THEN IF Contains(url, "|")
         THEN SubSeq(url, 2, (CHOOSE i \in 1..Len(url) :
                                  url[i] = "|" /\ \A j \in 1..(i - 1) : url[j] # "|") - 1)
         ELSE SubSeq(url, 2, Len(url) - 1)
    ELSE url

\* the URL set_jira_url extracts from text = before + "set jira url" + after
JiraUrlOf(before, after) ==
    Strip(SelectSeq(UnwrapSlackLink(strip_command(before, after)), IsVisible))

\* set_jira_url(text, team_id, channel_id)
set_jira_url(o, before, after, c, gen) ==
    IF ~require_project_passes(o, c)
    THEN [o |-> o, ret |-> RetMsg(MsgNoProject, <<>>), writes |-> 0, pwrites |-> 0]
    ELSE LET url == JiraUrlOf(before, after)
         IN  IF url = <<>>
             THEN [o |-> o, ret |-> RetMsg(MsgJiraProvide, <<>>), writes |-> 0, pwrites |-> 0]
             ELSE IF ~(StartsWith(Lower(url), Http) \/ StartsWith(Lower(url), Https))
             THEN [o |-> o, ret |-> RetMsg(MsgJiraScheme, url), writes |-> 0, pwrites |-> 0]
             ELSE IF Len(url) > MAX_URL_LENGTH
             THEN [o |-> o, ret |-> RetMsg(MsgJiraTooLong, <<>>), writes |-> 0, pwrites |-> 0]
             ELSE LET u == update_settings_field(o, c, "jira_url", url, gen)
                  IN  [u EXCEPT !.ret = RetMsg(MsgJiraUpdated, <<>>)]

\* show_jira_bug_query(team_id, channel_id)
show_jira_bug_query(o, c, t, gen) ==
    IF ~require_project_passes(o, c)
    THEN [o |-> o, ret |-> RetMsg(MsgNoProject, <<>>), writes |-> 0, pwrites |-> 0]
    ELSE LET g     == get_settings(o, c, t, gen)
             query == Get(g.ret.settings, "jira_bug_query", <<>>)
         IN  IF query = <<>>
             THEN [g EXCEPT !.ret = RetMsg(MsgJiraQueryNotSet, <<>>)]
             ELSE [g EXCEPT !.ret = RetMsg(MsgJiraQuery, query)]

\* "set jira url <after>"
JiraTexts ==
    {Text(<<>>, <<" ", "f", "t", "p", ":", "/", "/", "b">>),
     Text(<<>>, <<" ">> \o Https \o <<"e">>),
     Text(<<>>, <<" ", "<">> \o Https \o <<"e", "|", "e", ">">>),
     Text(<<>>, <<" ", "<">> \o Http \o <<"e", ">">>),
     Text(<<>>, <<" ", "ZWSP">> \o Https \o <<"e", " ">>),
     Text(<<>>, <<" ", "H", "T", "T", "P", "S", ":", "/", "/", "E">>),
     Text(<<>>, <<" ">>),
     Text(<<>>, <<" ">> \o Https \o Repeat("e", MAX_URL_LENGTH - 7))}

SetJiraUrl(t, c, text) ==
    /\ now < MaxOps
    /\ Done("set_jira_url", t, c, "jira_url", JiraUrlOf(text.before, text.after), text,
            set_jira_url(orgs[t], text.before, text.after, c, impl), FALSE)

ShowJiraBugQuery(t, c) ==
    /\ now < MaxOps
    /\ Done("show_jira_bug_query", t, c, "", <<>>, NoText,
            show_jira_bug_query(orgs[t], c, now, impl), FALSE)

NextJira ==
    \/ \E t \in Tenants, c \in Channels \cup {NoChannel}, text \in JiraTexts :
          SetJiraUrl(t, c, text)
    \/ \E t \in Tenants, c \in Channels \cup {NoChannel} : ShowJiraBugQuery(t, c)
    \/ \E t \in Tenants, c \in Channels, text \in BindTexts : SetChannelProject(t, c, text)
    \/ \E t \in Tenants, c \in Channels :
          UpdateSettingsField(t, c, "jira_bug_query", <<"q">>)

SpecJira == Init /\ [][NextJira]_vars

\* the channel of the last command was bound to a project when the command started
C23_Bound == last.c # NoChannel /\ get_channel_project_name(last.pre, last.c) # <<>>

C23_Project == get_channel_project_name(last.pre, last.c)

\* C23 as claimed: on a bound channel, set_jira_url with a value that does not start
\* with http:// or https:// returns a validation message naming the required scheme and
\* leaves the store unchanged; with a valid URL it stores the URL as the bound project's
\* jira_url and confirms; show_jira_bug_query on a project with no stored query reports
\* that the query is not set.
C23_AsClaimed ==
    /\ (last.op = "set_jira_url" /\ C23_Bound /\ last.v # <<>>) =>
           IF ~(StartsWith(Lower(last.v), Http) \/ StartsWith(Lower(last.v), Https))
           THEN last.ret.msg = MsgJiraScheme /\ orgs[last.t] = last.pre
           ELSE Len(last.v) <= MAX_URL_LENGTH =>
                    /\ last.ret.msg = MsgJiraUpdated
                    /\ C23_Project \in DOMAIN orgs[last.t].projects
                    /\ Get(orgs[last.t].projects[C23_Project], "jira_url", <<>>) = last.v
    /\ (/\ last.op = "show_jira_bug_query" /\ C23_Bound
        /\ Get(Get(last.pre.projects, C23_Project, EmptyMap), "jira_bug_query", <<>>) = <<>>) =>
           last.ret.msg = MsgJiraQueryNotSet

----------------------------------------------------------------------------
(* Mention dispatcher: handle_mention of src/app.py *)

\* the command phrases, in the order handle_mention tests them
KwListProjects == <<"l", "i", "s", "t", " ", "p", "r", "o", "j", "e", "c", "t", "s">>
KwUseProject == <<"u", "s", "e", " ", "p", "r", "o", "j", "e", "c", "t">>
KwStatus == <<"s", "t", "a", "t", "u", "s">>
KwShowBugTemplate == <<"s", "h", "o", "w", " ", "b", "u", "g", " ", "t", "e", "m", "p", "l", "a", "t", "e">>
KwCreateBugReport == <<"c", "r", "e", "a", "t", "e", " ", "b", "u", "g", " ", "r", "e", "p", "o", "r", "t">>
KwHelp == <<"h", "e", "l", "p">>
KwEditBugTemplate == <<"e", "d", "i", "t", " ", "b", "u", "g", " ", "t", "e", "m", "p", "l", "a", "t", "e">>
KwShowProject == <<"s", "h", "o", "w", " ", "p", "r", "o", "j", "e", "c", "t">>
KwUpdateDocs == <<"u", "p", "d", "a", "t", "e", " ", "d", "o", "c", "s">>
KwEnableDocs == <<"e", "n", "a", "b", "l", "e", " ", "d", "o", "c", "s">>
KwDisableDocs == <<"d", "i", "s", "a", "b", "l", "e", " ", "d", "o", "c", "s">>
KwSetJiraToken == <<"s", "e", "t", " ", "j", "i", "r", "a", " ", "t", "o", "k", "e", "n">>
KwSetJiraUrl == <<"s", "e", "t", " ", "j", "i", "r", "a", " ", "u", "r", "l">>
KwSetJiraQuery == <<"s", "e", "t", " ", "j", "i", "r", "a", " ", "q", "u", "e", "r", "y">>
KwShowJiraQuery == <<"s", "h", "o", "w", " ", "j", "i", "r", "a", " ", "q", "u", "e", "r", "y">>
KwSetJiraEmail == <<"s", "e", "t", " ", "j", "i", "r", "a", " ", "e", "m", "a", "i", "l">>
KwSetJiraDefaults == <<"s", "e", "t", " ", "j", "i", "r", "a", " ", "d", "e", "f", "a", "u", "l", "t", "s">>
KwShowJiraDefaults == <<"s", "h", "o", "w", " ", "j", "i", "r", "a", " ", "d", "e", "f", "a", "u", "l", "t", "s">>
KwClearJiraDefault == <<"c", "l", "e", "a", "r", " ", "j", "i", "r", "a", " ", "d", "e", "f", "a", "u", "l", "t">>
KwTestJira == <<"t", "e", "s", "t", " ", "j", "i", "r", "a">>
KwGetBugs == <<"g", "e", "t", " ", "b", "u", "g", "s">>

\* the phrase of each test and the handler its branch calls
Commands ==
    <<[phrase |-> KwListProjects, handler |-> "list_projects"],
      [phrase |-> KwUseProject, handler |-> "set_channel_project"],
      [phrase |-> KwStatus, handler |-> "show_channel_status"],
      [phrase |-> KwShowBugTemplate, handler |-> "show_bug_report_template"],
      [phrase |-> KwCreateBugReport, handler |-> "generate_bug_report"],
      [phrase |-> KwHelp, handler |-> "get_help"],
      [phrase |-> KwEditBugTemplate, handler |-> "edit_bug_report_template"],
      [phrase |-> KwShowProject, handler |-> "show_project_overview"],
      [phrase |-> KwUpdateDocs, handler |-> "update_project_overview"],
      [phrase |-> KwEnableDocs, handler |-> "set_use_documentation"],
      [phrase |-> KwDisableDocs, handler |-> "set_use_documentation"],
      [phrase |-> KwSetJiraToken, handler |-> "set_jira_token"],
      [phrase |-> KwSetJiraUrl, handler |-> "set_jira_url"],
      [phrase |-> KwSetJiraQuery, handler |-> "set_jira_bug_query"],
      [phrase |-> KwShowJiraQuery, handler |-> "show_jira_bug_query"],
      [phrase |-> KwSetJiraEmail, handler |-> "set_jira_email"],
      [phrase |-> KwSetJiraDefaults, handler |-> "set_jira_defaults"],
      [phrase |-> KwShowJiraDefaults, handler |-> "show_jira_defaults"],
      [phrase |-> KwClearJiraDefault, handler |-> "clear_jira_default"],
      [phrase |-> KwTestJira, handler |-> "test_jira_connection"],
      [phrase |-> KwGetBugs, handler |-> "get_jira_bugs"]>>

\* the position and the phrase at which s holds command: s.find(command), 0 for -1
Occurs(s, command, i) ==
    i + Len(command) - 1 <= Len(s) /\ \A k \in 1..Len(command) : s[i + k - 1] = command[k]

RECURSIVE FindFrom(_, _, _)
FindFrom(s, command, i) ==
    IF i + Len(command) - 1 > Len(s) THEN 0
    ELSE IF Occurs(s, command, i) THEN i
    ELSE FindFrom(s, command, i + 1)

Find(s, command) == FindFrom(s, command, 1)

\* contains(text, keywords): any(k in text for k in keywords)
contains(text, keywords) == \E k \in keywords : Find(text, k) # 0

\* The text around the first occurrence of the command phrase, found in the lowered
\* text as strip_command finds it: text = before + command + after.  A text without
\* the phrase is all "before".
SplitAt(text, command) ==
    LET idx == Find(Lower(text), Lower(Strip(command)))
    IN  IF idx = 0 THEN Text(text, <<>>)
        ELSE Text(SubSeq(text, 1, idx - 1), SubSeq(text, idx + Len(command), Len(text)))

\* strip_leading_mention: re.sub(r"^<@[^>]+>\s*", "", text).strip()
strip_leading_mention(text) ==
    IF /\ Len(text) >= 4 /\ text[1] = "<" /\ text[2] = "@" /\ text[3] # ">"
       /\ \E i \in 4..Len(text) : text[i] = ">"
    THEN LET close == CHOOSE i \in 4..Len(text) :
                          text[i] = ">" /\ \A j \in 4..(i - 1) : text[j] # ">"
         IN  Strip(SubSeq(text, close + 1, Len(text)))
    ELSE Strip(text)

MIN_TEXT_LENGTH == 3
MAX_TEXT_LENGTH == 1000
MIN_PROJECT_OVERVIEW_LENGTH == 50
MIN_BUG_REPORT_TEMPLATE_LENGTH == 25

\* The branch of handle_mention the lowered text takes: the index in Commands of the
\* first phrase the text contains, 0 for the fallback.
RECURSIVE DispatchFrom(_, _)
DispatchFrom(text, i) ==
    IF i > Len(Commands) THEN 0
    ELSE IF contains(text, {Commands[i].phrase}) THEN i
    ELSE DispatchFrom(text, i + 1)

Dispatch(text) == DispatchFrom(text, 1)

\* What handle_mention computes from the text of the event alone: clean_text, the
\* branch its lowered form takes, and for that branch's phrase the text around it
\* and the payload strip_command leaves.  The tests on the text are skipped, as in
\* the code, for a text the length checks turn away.
Route(raw_text) ==
    LET clean_text == strip_leading_mention(raw_text)
        i == IF Len(clean_text) < MIN_TEXT_LENGTH \/ Len(clean_text) > MAX_TEXT_LENGTH
             THEN 0 ELSE Dispatch(Lower(clean_text))
        s == IF i = 0 THEN NoText ELSE SplitAt(clean_text, Commands[i].phrase)
    IN  [clean_text |-> clean_text, i |-> i, split |-> s,
         payload |-> strip_command(s.before, s.after)]

----------------------------------------------------------------------------
(* The commands handle_mention dispatches to, src/src/commands.py *)

MsgStatusNoChannel == "Channel status is only available when called from a channel."
MsgStatus          == "*Project name:*"
MsgHelp            == "**Available commands:**"
MsgDocsEmpty       == "Project documentation is empty."
MsgDocs            == "project_context"
MsgDocsProvide     == "Please provide project documentation content."
MsgDocsUpdated     == "Project overview updated."
MsgTokenProvide    == "Please provide a Jira token."
MsgTokenShort      == "Jira token looks too short."
MsgTokenLong       == "Jira token looks unusually long."
MsgTokenUpdated    == "Jira token has been updated."
MsgQueryProvide    == "Please provide a JQL query."
MsgQueryShort      == "Jira query looks too short."
MsgQueryLong       == "Jira query is too long."
MsgQueryUpdated    == "Jira bug query has been updated."
MsgEmailProvide    == "Please provide a Jira email address."
MsgEmailInvalid    == "Please provide a valid email address."
MsgEmailLong       == "Jira email is too long."
MsgEmailUpdated    == "Jira email has been updated."
MsgDefaultsProvide == "Please provide field=value pairs."
MsgDefaultsErrors  == "Errors found:"
MsgDefaultsNoPairs == "No valid field=value pairs found."
MsgDefaultsUpdated == "Jira defaults updated:"
MsgDefaultsEmpty   == "No Jira default fields are set."
MsgDefaults        == "*Jira default fields:*"
MsgClearProvide    == "Please provide a field name to clear."
MsgClearTooLong    == "Field name is too long"
MsgClearNotSet     == "Jira default field is not set."
MsgCleared         == "Jira default field has been cleared."
MsgJiraMissing     == "Jira is not fully configured."
MsgJiraConnected   == "Jira connection successful!"
MsgJiraAuth        == "Authentication failed."
MsgJiraForbidden   == "Access forbidden."
MsgJiraFailed      == "Failed to connect to Jira"
MsgJqlNotSet       == "Jira bug query (JQL) is not set for this project."
MsgJqlInvalid      == "Invalid JQL query"
MsgIssues          == "Found issue(s)"
MsgNoChannelDetected == "I couldn't detect the channel for this request."
MsgHmm             == "Hmm :)"
MsgMentionTooLong  == "Your message is too long"
MsgTemplateShort   == "Bug report template is too short."
MsgOverviewShort   == "Project description is too short."
MsgNotUnderstood   == "I did not understand that command."

MAX_TOKEN_LENGTH == 4096
MAX_QUERY_LENGTH == 8000
MAX_EMAIL_LENGTH == 256
MAX_FIELD_NAME_LENGTH == 64
MAX_FIELD_VALUE_LENGTH == 512

\* a command that answers m without a store operation
Reply(o, m, text) == [o |-> o, ret |-> RetMsg(m, text), writes |-> 0, pwrites |-> 0]

\* show_channel_status(team_id, channel_id): the reply carries the bound name and the
\* settings its lines are formatted from
show_channel_status(o, c, t, gen) ==
    IF c = NoChannel THEN Reply(o, MsgStatusNoChannel, <<>>)
    ELSE LET project_name == get_channel_project_name(o, c)
             g == get_settings(o, c, t, gen)
         IN  [g EXCEPT !.ret = Ret("msg", g.ret.settings, MsgStatus, project_name)]

\* get_help()
get_help(o) == Reply(o, MsgHelp, <<>>)

\* show_project_overview(team_id, channel_id)
show_project_overview(o, c, t, gen) ==
    IF ~require_project_passes(o, c) THEN Reply(o, MsgNoProject, <<>>)
    ELSE LET g == get_settings(o, c, t, gen)
         IN  IF "project_context" \notin DOMAIN g.ret.settings
             \* settings["project_context"] raises KeyError, caught by the command
             THEN [g EXCEPT !.ret = RetMsg(MsgUnexpected, <<>>)]
             ELSE IF Strip(g.ret.settings["project_context"]) = <<>>
             THEN [g EXCEPT !.ret = RetMsg(MsgDocsEmpty, <<>>)]
             ELSE [g EXCEPT !.ret = RetMsg(MsgDocs, g.ret.settings["project_context"])]

\* The shape the writing commands share: the gate, the validation of the payload
\* (reject is the reply of the check that failed, "" when none did), the write.
GatedWrite(o, c, f, payload, reject, done, gen) ==
    IF ~require_project_passes(o, c) THEN Reply(o, MsgNoProject, <<>>)
    ELSE IF reject # "" THEN Reply(o, reject, <<>>)
    ELSE LET u == update_settings_field(o, c, f, payload, gen)
         IN  [u EXCEPT !.ret = RetMsg(done, <<>>)]

\* update_project_overview(text, team_id, channel_id), text = before + "update docs" + after
update_project_overview(o, before, after, c, gen) ==
    LET payload == Strip(strip_command(before, after))
    IN  GatedWrite(o, c, "project_context", payload,
                   IF payload = <<>> THEN MsgDocsProvide ELSE "", MsgDocsUpdated, gen)

\* set_jira_token(text, team_id, channel_id)
set_jira_token(o, before, after, c, gen) ==
    LET token == Strip(strip_command(before, after))
    IN  GatedWrite(o, c, "jira_token", token,
                   IF token = <<>> THEN MsgTokenProvide
                   ELSE IF Len(token) < 5 THEN MsgTokenShort
                   ELSE IF Len(token) > MAX_TOKEN_LENGTH THEN MsgTokenLong ELSE "",
                   MsgTokenUpdated, gen)

\* set_jira_bug_query(text, team_id, channel_id)
set_jira_bug_query(o, before, after, c, gen) ==
    LET query == Strip(strip_command(before, after))
    IN  GatedWrite(o, c, "jira_bug_query", query,
                   IF query = <<>> THEN MsgQueryProvide
                   ELSE IF Len(query) < 5 THEN MsgQueryShort
                   ELSE IF Len(query) > MAX_QUERY_LENGTH THEN MsgQueryLong ELSE "",
                   MsgQueryUpdated, gen)

\* email.split("@")[-1]
AfterLastAt(email) ==
    IF ~Contains(email, "@") THEN email
    ELSE LET at == CHOOSE i \in 1..Len(email) :
                       email[i] = "@" /\ \A j \in (i + 1)..Len(email) : email[j] # "@"
         IN  SubSeq(email, at + 1, Len(email))

\* set_jira_email(text, team_id, channel_id)
set_jira_email(o, before, after, c, gen) ==
    LET email == Strip(strip_command(before, after))
    IN  GatedWrite(o, c, "jira_email", email,
                   IF email = <<>> THEN MsgEmailProvide
                   ELSE IF ~Contains(email, "@") \/ ~Contains(AfterLastAt(email), ".")
                   THEN MsgEmailInvalid
                   ELSE IF Len(email) > MAX_EMAIL_LENGTH THEN MsgEmailLong ELSE "",
                   MsgEmailUpdated, gen)

\* str.split(): the words between runs of whitespace
RECURSIVE SplitWords(_)
SplitWords(s) ==
    LET rest == LStrip(s)
    IN  IF rest = <<>> THEN <<>>
        ELSE LET n == IF Contains(rest, " ")
                      THEN CHOOSE i \in 1..Len(rest) :
                               rest[i] = " " /\ \A j \in 1..(i - 1) : rest[j] # " "
                      ELSE Len(rest) + 1
             IN  <<SubSeq(rest, 1, n - 1)>> \o SplitWords(SubSeq(rest, n, Len(rest)))

\* one field=value pair: pair.split('=', 1) and the checks on its two halves
ParsePair(pair) ==
    IF ~Contains(pair, "=") THEN [ok |-> FALSE, name |-> <<>>, value |-> <<>>]
    ELSE LET eq == CHOOSE i \in 1..Len(pair) :
                       pair[i] = "=" /\ \A j \in 1..(i - 1) : pair[j] # "="
             field_name  == Strip(SubSeq(pair, 1, eq - 1))
             field_value == Strip(SubSeq(pair, eq + 1, Len(pair)))
         IN  [ok |-> /\ field_name # <<>> /\ field_value # <<>>
                     /\ Len(field_name) <= MAX_FIELD_NAME_LENGTH
                     /\ Len(field_value) <= MAX_FIELD_VALUE_LENGTH,
              name |-> field_name, value |-> field_value]

\* the loop over the pairs: the errors collected and the defaults dict built
RECURSIVE ParsePairs(_)
ParsePairs(pairs) ==
    IF pairs = <<>> THEN [errors |-> 0, defaults |-> EmptyMap]
    ELSE LET front == ParsePairs(SubSeq(pairs, 1, Len(pairs) - 1))
             p     == ParsePair(pairs[Len(pairs)])
         IN  IF p.ok THEN [front EXCEPT !.defaults = Put(front.defaults, p.name, p.value)]
             ELSE [front EXCEPT !.errors = front.errors + 1]

\* A mutant: the new pairs replace the stored mapping.
MergedDefaults_replace(current_defaults, defaults) == defaults

\* current_defaults.update(defaults)
MergedDefaults(current_defaults, defaults) == Merge(current_defaults, defaults)

\* set_jira_defaults(text, team_id, channel_id), text = before + "set jira defaults" + after
set_jira_defaults(o, before, after, c, t, gen) ==
    IF ~require_project_passes(o, c) THEN Reply(o, MsgNoProject, <<>>)
    ELSE LET payload == Strip(strip_command(before, after))
             parsed  == ParsePairs(SplitWords(payload))
         IN  IF payload = <<>> THEN Reply(o, MsgDefaultsProvide, <<>>)
             ELSE IF parsed.errors > 0 THEN Reply(o, MsgDefaultsErrors, <<>>)
             ELSE IF parsed.defaults = EmptyMap THEN Reply(o, MsgDefaultsNoPairs, <<>>)
             ELSE LET g == get_settings(o, c, t, gen)
                      current_defaults == Get(g.ret.settings, "jira_defaults", EmptyMap)
                      u == update_settings_field(g.o, c, "jira_defaults",
                               MergedDefaults(current_defaults, parsed.defaults), gen)
                  IN  [o |-> u.o, ret |-> RetMsg(MsgDefaultsUpdated, <<>>),
                       writes |-> g.writes + u.writes, pwrites |-> g.pwrites]

\* show_jira_defaults(team_id, channel_id): the reply carries the mapping it lists
show_jira_defaults(o, c, t, gen) ==
    IF ~require_project_passes(o, c) THEN Reply(o, MsgNoProject, <<>>)
    ELSE LET g == get_settings(o, c, t, gen)
             defaults == Get(g.ret.settings, "jira_defaults", EmptyMap)
         IN  IF defaults = EmptyMap
             THEN [g EXCEPT !.ret = RetMsg(MsgDefaultsEmpty, <<>>)]
             ELSE [g EXCEPT !.ret = Ret("msg", defaults, MsgDefaults, <<>>)]

\* del defaults[field_name]
Remove(m, k) == [x \in (DOMAIN m) \ {k} |-> m[x]]

\* clear_jira_default(text, team_id, channel_id), text = before + "clear jira default" + after
clear_jira_default(o, before, after, c, t, gen) ==
    IF ~require_project_passes(o, c) THEN Reply(o, MsgNoProject, <<>>)
    ELSE LET field_name == Strip(strip_command(before, after))
         IN  IF field_name = <<>> THEN Reply(o, MsgClearProvide, <<>>)
             ELSE IF Len(field_name) > MAX_FIELD_NAME_LENGTH
             THEN Reply(o, MsgClearTooLong, <<>>)
             ELSE LET g == get_settings(o, c, t, gen)
                      defaults == Get(g.ret.settings, "jira_defaults", EmptyMap)
                  IN  IF field_name \notin DOMAIN defaults
                      THEN [g EXCEPT !.ret = RetMsg(MsgClearNotSet, field_name)]
                      ELSE LET u == update_settings_field(g.o, c, "jira_defaults",
                                                          Remove(defaults, field_name), gen)
                           IN  [o |-> u.o, ret |-> RetMsg(MsgCleared, field_name),
                                writes |-> g.writes + u.writes, pwrites |-> g.pwrites]

\* what the Jira server does with a request
JiraOutcomes == {"ok", "400", "401", "403", "error"}

\* the setting as _get_jira_client reads it: settings.get(key, "").strip()
Setting(settings, key) == Strip(Get(settings, key, <<>>))

\* _get_jira_client: "" when the client was made, or the reply that says why not
get_jira_client(settings, jira) ==
    IF \E key \in {"jira_url", "jira_token", "jira_email"} : Setting(settings, key) = <<>>
    THEN MsgJiraMissing
    ELSE ""

\* test_jira_connection(team_id, channel_id); jira is what jira.current_user() does
test_jira_connection(o, c, t, gen, jira) ==
    IF ~require_project_passes(o, c) THEN Reply(o, MsgNoProject, <<>>)
    ELSE LET g == get_settings(o, c, t, gen)
             error_msg == get_jira_client(g.ret.settings, jira)
         IN  [g EXCEPT !.ret = RetMsg(IF error_msg # "" THEN error_msg
                                      ELSE IF jira = "ok" THEN MsgJiraConnected
                                      ELSE IF jira = "401" THEN MsgJiraAuth
                                      ELSE IF jira = "403" THEN MsgJiraForbidden
                                      ELSE MsgJiraFailed, <<>>)]

\* get_jira_bugs(team_id, channel_id); jira is what jira.search_issues() does
get_jira_bugs(o, c, t, gen, jira) ==
    IF ~require_project_passes(o, c) THEN Reply(o, MsgNoProject, <<>>)
    ELSE LET g == get_settings(o, c, t, gen)
             error_msg == get_jira_client(g.ret.settings, jira)
             jql_query == Setting(g.ret.settings, "jira_bug_query")
         IN  [g EXCEPT !.ret = RetMsg(IF error_msg # "" THEN error_msg
                                      ELSE IF jql_query = <<>> THEN MsgJqlNotSet
                                      ELSE IF jira = "ok" THEN MsgIssues
                                      ELSE IF jira = "400" THEN MsgJqlInvalid
                                      ELSE IF jira = "401" THEN MsgJiraAuth
                                      ELSE IF jira = "403" THEN MsgJiraForbidden
                                      ELSE MsgJiraFailed, jql_query)]

----------------------------------------------------------------------------
(* handle_mention *)

\* what handle_mention did with an event: the document it leaves, the handlers it
\* called, the replies it sent through say, and whether an exception left it
Handled(o, doc, invoked, said, raised) ==
    [o |-> o, doc |-> doc, invoked |-> invoked, said |-> said, raised |-> raised]

\* what a call leaves: the organization document, the rate-limit document, the return
Invoked(r, doc) == [o |-> r.o, doc |-> doc, ret |-> r.ret]

\* the call the branch of Commands[i] makes, on clean_text
Invoke(route, o, doc, lim, c, t, gen, cl, ai, jira) ==
    LET i == route.i
        h == Commands[i].handler
        s == route.split
    IN  IF h = "generate_bug_report"
        THEN LET g == generate_bug_report(o, doc, lim, Len(route.clean_text), c, t, gen, cl, ai)
             IN  Invoked(g, g.doc)
        ELSE Invoked(
             CASE h = "list_projects" -> list_projects(o, TeamId(t))
               [] h = "set_channel_project" -> set_channel_project(o, s.before, s.after, c, t, gen)
               [] h = "show_channel_status" -> show_channel_status(o, c, t, gen)
               [] h = "show_bug_report_template" -> show_bug_report_template(o, c, t, gen)
               [] h = "get_help" -> get_help(o)
               [] h = "edit_bug_report_template" ->
                      edit_bug_report_template(o, s.before, s.after, c, gen)
               [] h = "show_project_overview" -> show_project_overview(o, c, t, gen)
               [] h = "update_project_overview" ->
                      update_project_overview(o, s.before, s.after, c, gen)
               [] h = "set_use_documentation" ->
                      set_use_documentation(o, Commands[i].phrase = KwEnableDocs, c, gen)
               [] h = "set_jira_token" -> set_jira_token(o, s.before, s.after, c, gen)
               [] h = "set_jira_url" -> set_jira_url(o, s.before, s.after, c, gen)
               [] h = "set_jira_bug_query" -> set_jira_bug_query(o, s.before, s.after, c, gen)
               [] h = "show_jira_bug_query" -> show_jira_bug_query(o, c, t, gen)
               [] h = "set_jira_email" -> set_jira_email(o, s.before, s.after, c, gen)
               [] h = "set_jira_defaults" -> set_jira_defaults(o, s.before, s.after, c, t, gen)
               [] h = "show_jira_defaults" -> show_jira_defaults(o, c, t, gen)
               [] h = "clear_jira_default" ->
                      clear_jira_default(o, s.before, s.after, c, t, gen)
               [] h = "test_jira_connection" -> test_jira_connection(o, c, t, gen, jira)
               [] h = "get_jira_bugs" -> get_jira_bugs(o, c, t, gen, jira),
             doc)

\* say(result) after the call r of the branch command: the fixed replies of the
\* documentation switches, nothing when the call raised
Said(r, command) ==
    IF r.ret.kind = "raise"
    \* the exception leaves handle_mention before say is reached
    THEN Handled(r.o, r.doc, <<command.handler>>, <<>>, TRUE)
    ELSE IF command.phrase = KwEnableDocs
    THEN Handled(r.o, r.doc, <<command.handler>>, <<RetMsg(MsgWillUseDocs, <<>>)>>, FALSE)
    ELSE IF command.phrase = KwDisableDocs
    THEN Handled(r.o, r.doc, <<command.handler>>, <<RetMsg(MsgWontUseDocs, <<>>)>>, FALSE)
    ELSE Handled(r.o, r.doc, <<command.handler>>, <<r.ret>>, FALSE)

\* handle_mention(event, say, body) for an event in channel c of tenant t whose text
\* routes as route: o is the organization document, doc the rate-limit document
handle_mention(o, doc, lim, route, c, t, gen, cl, ai, jira) ==
    LET clean_text == route.clean_text
        i          == route.i
        payload    == route.payload
    IN  IF c # NoChannel /\ ~get_channel_welcome_shown(o, c)
        THEN Handled(set_channel_welcome_shown(o, c, TRUE), doc, <<>>,
                     <<RetMsg(MsgWelcome, <<>>)>>, FALSE)
        ELSE IF Len(clean_text) < MIN_TEXT_LENGTH
        THEN Handled(o, doc, <<>>, <<RetMsg(MsgHmm, <<>>)>>, FALSE)
        ELSE IF Len(clean_text) > MAX_TEXT_LENGTH
        THEN Handled(o, doc, <<>>, <<RetMsg(MsgMentionTooLong, <<>>)>>, FALSE)
        ELSE IF i = 0
        THEN Handled(o, doc, <<>>, <<RetMsg(MsgNotUnderstood, <<>>)>>, FALSE)
        ELSE IF Commands[i].phrase = KwUseProject /\ c = NoChannel
        THEN Handled(o, doc, <<>>, <<RetMsg(MsgNoChannelDetected, <<>>)>>, FALSE)
        ELSE IF /\ Commands[i].phrase = KwEditBugTemplate
                /\ Len(payload) < MIN_BUG_REPORT_TEMPLATE_LENGTH
        THEN Handled(o, doc, <<>>, <<RetMsg(MsgTemplateShort, <<>>)>>, FALSE)
        ELSE IF /\ Commands[i].phrase = KwUpdateDocs
                /\ Len(payload) < MIN_PROJECT_OVERVIEW_LENGTH
        THEN Handled(o, doc, <<>>, <<RetMsg(MsgOverviewShort, <<>>)>>, FALSE)
        ELSE Said(Invoke(route, o, doc, lim, c, t, gen, cl, ai, jira), Commands[i])

\* "<@U1> ", the mention that opens the text of an app_mention event
Mention == <<"<", "@", "U", "1", ">", " ">>

Sp == <<" ">>

\* the texts of the events: every command phrase, payloads long and short enough
\* for the dispatcher's length checks, payloads that hold the keyword of another
\* command, a phrase in upper case, an unknown text, a text too short and one too long
MentionTexts ==
    {Mention \o body : body \in
        {<<"h", "i">>,
         Repeat("x", MAX_TEXT_LENGTH + 1),
         <<"w", "h", "a", "t", "?">>,
         KwListProjects,
         <<"L", "I", "S", "T", " ", "P", "R", "O", "J", "E", "C", "T", "S">>,
         KwUseProject \o Sp \o NameA,
         KwUseProject \o Sp \o NameB,
         KwStatus,
         KwShowBugTemplate,
         KwCreateBugReport \o Sp \o <<"x">>,
         KwHelp,
         KwEditBugTemplate \o Sp \o Repeat("x", MIN_BUG_REPORT_TEMPLATE_LENGTH),
         KwEditBugTemplate \o Sp \o <<"x">>,
         KwEditBugTemplate \o Sp \o KwHelp \o Repeat("x", MIN_BUG_REPORT_TEMPLATE_LENGTH),
         KwShowProject,
         KwUpdateDocs \o Sp \o Repeat("d", MIN_PROJECT_OVERVIEW_LENGTH),
         KwUpdateDocs \o Sp \o <<"d">>,
         KwEnableDocs,
         KwDisableDocs,
         KwSetJiraToken \o Sp \o <<"t", "o", "k", "e", "n">>,
         KwSetJiraUrl \o Sp \o Https \o <<"e">>,
         KwSetJiraQuery \o Sp \o <<"t", "y", "p", "e", " ", "=", " ", "B", "u", "g">>,
         KwSetJiraQuery \o Sp \o KwStatus \o <<" ", "=", " ", "O", "p", "e", "n">>,
         KwShowJiraQuery,
         KwSetJiraEmail \o Sp \o <<"a", "@", "b", ".", "c">>,
         KwSetJiraDefaults \o Sp \o <<"k", "=", "v">>,
         KwShowJiraDefaults,
         KwClearJiraDefault \o Sp \o <<"k">>,
         KwTestJira,
         KwGetBugs}}

\* the route of every text of the events
Routes == [raw_text \in MentionTexts |-> Route(raw_text)]

\* number of mention events in one behaviour of the dispatcher specification
MaxMentions == 2

\* the outcomes of the OpenAI and Jira calls matter to the handlers that make them
UsesOutcomes(route, ai, jira) ==
    LET h == IF route.i = 0 THEN "" ELSE Commands[route.i].handler
    IN  /\ ai = "content" \/ h = "generate_bug_report"
        /\ jira = "ok" \/ h \in {"test_jira_connection", "get_jira_bugs"}

\* the stores and the record of the event after handle_mention did r
MentionDone(t, c, raw_text, r) ==
    /\ orgs' = [orgs EXCEPT ![t] = r.o]
    /\ rate_limits' = [rate_limits EXCEPT ![t] = r.doc]
    /\ mention' = [on |-> TRUE, t |-> t, c |-> c, text |-> raw_text, pre |-> orgs[t],
                   invoked |-> r.invoked, said |-> r.said, raised |-> r.raised,
                   welcomed |-> IF r.said = <<RetMsg(MsgWelcome, <<>>)>>
                                THEN mention.welcomed \cup {<<t, c>>}
                                ELSE mention.welcomed]

\* One app_mention event handled from start to end.
HandleMention(t, c, raw_text, ai, jira) ==
    /\ now < MaxMentions
    /\ UsesOutcomes(Routes[raw_text], ai, jira)
    /\ MentionDone(t, c, raw_text,
                   handle_mention(orgs[t], rate_limits[t], limiter, Routes[raw_text], c, now,
                                  impl, client, ai, jira))
    /\ now' = now + 1
    /\ UNCHANGED <<impl, client, last, limiter, calls, remaining, ticks, concvars>>

\* src/app.py imports its commands from src/src/commands.py
InitMention ==
    /\ orgs \in [Tenants -> InitDocs]
    /\ impl = "src"
    /\ client \in {"None", "OpenAI"}
    /\ now = 0
    /\ last = NoLast
    /\ rate_limits = [t \in Tenants |-> NoRateDoc]
    /\ limiter = [max_requests |-> MaxMaxRequests, window_seconds |-> 120]
    /\ calls = <<>>
    /\ remaining = NoRemaining
    /\ ticks = 0
    /\ proc = [w \in Workers |-> Idle]
    /\ written = EmptyMap
    /\ extra = [t \in Tenants |-> <<>>]
    /\ bot_invocations_total = [t \in Tenants |-> 0]
    /\ mention = NoMention

NextMention ==
    \E t \in Tenants, c \in Channels \cup {NoChannel}, raw_text \in MentionTexts,
       ai \in AIOutcomes, jira \in JiraOutcomes : HandleMention(t, c, raw_text, ai, jira)

SpecMention == InitMention /\ [][NextMention]_vars

----------------------------------------------------------------------------
(* Claims, dispatcher specification *)

\* the event just handled came from a channel
C31_Event == mention.on /\ mention.c \in Channels

\* C31 as claimed: for every mention event delivered to handle_mention, whatever the
\* channel's welcome state and the text length, exactly one command handler is
\* invoked and exactly one reply is sent.
C31_AsClaimed ==
    C31_Event => Len(mention.invoked) = 1 /\ Len(mention.said) = 1

\* What the dispatcher does guarantee for an event from a channel: exactly one reply,
\* at most one handler, and no handler on the first mention in the channel.
C31_OneReply ==
    C31_Event => /\ Len(mention.said) = 1
                 /\ Len(mention.invoked) <= 1
                 /\ ~mention.raised
                 /\ ~get_channel_welcome_shown(mention.pre, mention.c)
                       => mention.invoked = <<>>

\* C32 as claimed: for every tenant and channel the welcome message is emitted at
\* most once: the first mention in the channel emits it and sets welcome_shown, and
\* every later mention in that channel is dispatched to a command, whatever the shape
\* of the stored binding and whether or not the welcome-flag write succeeded.
C32_AsClaimed ==
    [][mention'.said = <<RetMsg(MsgWelcome, <<>>)>>
          => <<mention'.t, mention'.c>> \notin mention.welcomed]_vars

\* The same for the channels whose stored binding is not a bare string.
C32_NotLegacy ==
    [][(/\ mention'.said = <<RetMsg(MsgWelcome, <<>>)>>
        /\ Get(orgs[mention'.t].cp, mention'.c, NoBinding).kind # "str")
          => /\ <<mention'.t, mention'.c>> \notin mention.welcomed
             /\ get_channel_welcome_shown(orgs'[mention'.t], mention'.c)]_vars

\* the text of the event as the dispatcher sees it
C33_Text == Lower(Routes[mention.text].clean_text)

\* The event got past the welcome and the dispatcher's own checks: the channel's
\* welcome was shown, the text is neither too short nor too long, and the payload of
\* command i is long enough for it.
C33_Passes(i) ==
    /\ mention.on /\ mention.c \in Channels
    /\ get_channel_welcome_shown(mention.pre, mention.c)
    /\ Len(Routes[mention.text].clean_text) >= MIN_TEXT_LENGTH
    /\ Len(Routes[mention.text].clean_text) <= MAX_TEXT_LENGTH
    /\ LET s == SplitAt(Routes[mention.text].clean_text, Commands[i].phrase)
           payload == strip_command(s.before, s.after)
       IN  /\ Commands[i].phrase = KwEditBugTemplate
                => Len(payload) >= MIN_BUG_REPORT_TEMPLATE_LENGTH
           /\ Commands[i].phrase = KwUpdateDocs
                => Len(payload) >= MIN_PROJECT_OVERVIEW_LENGTH

\* C33 as claimed: for every message whose text begins with the phrase of command X,
\* handle_mention invokes the handler of X, for every payload, including a payload
\* that contains the keyword of another command.
C33_AsClaimed ==
    \A i \in 1..Len(Commands) :
        (C33_Passes(i) /\ StartsWith(C33_Text, Commands[i].phrase))
            => mention.invoked = <<Commands[i].handler>>

\* The same for the messages that hold no phrase tested before X's.
C33_NoEarlierPhrase ==
    \A i \in 1..Len(Commands) :
        (/\ C33_Passes(i) /\ StartsWith(C33_Text, Commands[i].phrase)
         /\ \A j \in 1..(i - 1) : ~contains(C33_Text, {Commands[j].phrase}))
            => mention.invoked = <<Commands[i].handler>>

----------------------------------------------------------------------------
(* Concurrent Jira defaults: set_jira_defaults and clear_jira_default, one step per
   store access of the command *)

\* a tenant whose channel C1 is bound to project A, which holds one default field
DefaultsDoc ==
    [exists |-> TRUE, jd |-> JdStr(0), has_cp |-> TRUE,
     cp |-> Put(EmptyMap, "C1", DictBinding(NameA, "true")),
     projects |-> Put(EmptyMap, NameA,
                      Merge(PROJECT_DEFAULTS, [jira_defaults |-> Put(EmptyMap, <<"e">>, <<"1">>)]))]

\* "set jira defaults <after>"
DefaultsTexts ==
    {Text(<<>>, <<" ", "k", "=", "v">>),
     Text(<<>>, <<" ", "p", "=", "q", " ", "r", "=", "s">>),
     Text(<<>>, <<" ", "k", "=", "v", " ", "b", "a", "d">>)}

\* "clear jira default <after>"
ClearTexts == {Text(<<>>, <<" ", "e">>), Text(<<>>, <<" ", "z">>)}

\* the value recorded for a cleared field
Cleared == <<"cleared">>

\* set_jira_defaults up to its first store access: the pairs are parsed, a payload
\* with a malformed pair ends the command there
StartSetJiraDefaults(w, t, c, text) ==
    LET parsed == ParsePairs(SplitWords(Strip(strip_command(text.before, text.after))))
    IN  /\ parsed.errors = 0 /\ parsed.defaults # EmptyMap
        /\ StartCall(w, "set_jira_defaults", "jd_gate", t, c, "jira_defaults", parsed.defaults,
                     <<>>)

\* clear_jira_default up to its first store access
StartClearJiraDefault(w, t, c, text) ==
    LET field_name == Strip(strip_command(text.before, text.after))
    IN  /\ field_name # <<>> /\ Len(field_name) <= MAX_FIELD_NAME_LENGTH
        /\ StartCall(w, "clear_jira_default", "jd_gate", t, c, "jira_defaults", EmptyMap,
                     field_name)

\* _require_project: the find_one of get_channel_project_name
StepDefaultsGate(w) ==
    /\ At(w, "jd_gate")
    /\ IF require_project_passes(orgs[proc[w].t], proc[w].c)
       THEN Goto(w, "jd_read", proc[w].org)
       ELSE proc' = [proc EXCEPT ![w] = Idle]
    /\ UNCHANGED <<orgs, impl, client, mention, now, last, rlvars, written, metricsvars>>

\* settings = get_settings(...); the mapping to store is computed from what was read:
\* current_defaults.update(defaults), or del defaults[field_name]
StepDefaultsRead(w) ==
    /\ At(w, "jd_read")
    /\ LET g == get_settings(orgs[proc[w].t], proc[w].c, now, impl)
           current_defaults == Get(g.ret.settings, "jira_defaults", EmptyMap)
       IN  /\ Store(proc[w].t, g.o)
           /\ IF proc[w].op = "set_jira_defaults"
              THEN proc' = [proc EXCEPT ![w].pc = "jd_find",
                                        ![w].name = proc[w].v,
                                        ![w].v = MergedDefaults(current_defaults, proc[w].v)]
              ELSE IF proc[w].name \in DOMAIN current_defaults
              THEN proc' = [proc EXCEPT ![w].pc = "jd_find",
                                        ![w].v = Remove(current_defaults, proc[w].name)]
              ELSE proc' = [proc EXCEPT ![w] = Idle]
    /\ UNCHANGED <<impl, client, mention, now, last, rlvars, written, metricsvars>>

\* _update_settings_field: org = orgs.find_one(...) or {}
StepDefaultsFind(w) ==
    /\ At(w, "jd_find")
    /\ Goto(w, "jd_write", orgs[proc[w].t])
    /\ UNCHANGED <<orgs, impl, client, mention, now, last, rlvars, written, metricsvars>>

\* The changes the command has made once it returns its confirmation: field name ->
\* the value set, or Cleared.
DefaultsChanges(p) ==
    IF p.op = "set_jira_defaults" THEN p.name ELSE Put(EmptyMap, p.name, Cleared)

\* _update_settings_field: $set projects.<name>.jira_defaults to the whole mapping
StepDefaultsWrite(w) ==
    /\ At(w, "jd_write")
    /\ LET tgt == UpdateTarget(proc[w].org, proc[w].c, impl)
           ch  == DefaultsChanges(proc[w])
       IN  IF tgt.skip
           THEN UNCHANGED <<orgs, written>>
           ELSE /\ Store(proc[w].t, FieldWrite(orgs[proc[w].t], tgt.name, "jira_defaults",
                                               proc[w].v))
                /\ written' = [k \in (DOMAIN written) \cup
                                     {<<proc[w].t, tgt.name, n>> : n \in DOMAIN ch} |->
                                  IF k[1] = proc[w].t /\ k[2] = tgt.name /\ k[3] \in DOMAIN ch
                                  THEN ch[k[3]] ELSE written[k]]
    /\ proc' = [proc EXCEPT ![w] = Idle]
    /\ UNCHANGED <<impl, client, mention, now, last, rlvars, metricsvars>>

InitDefaults ==
    /\ orgs \in [Tenants -> {DefaultsDoc, LegacyNoDate}]
    /\ impl \in {"src", "bot"}
    /\ client = "OpenAI"
    /\ now = 0
    /\ last = NoLast
    /\ rate_limits = [t \in Tenants |-> NoRateDoc]
    /\ limiter = [max_requests |-> MaxMaxRequests, window_seconds |-> 120]
    /\ calls = <<>>
    /\ remaining = NoRemaining
    /\ ticks = 0
    /\ proc = [w \in Workers |-> Idle]
    /\ written = EmptyMap
    /\ extra = [t \in Tenants |-> <<>>]
    /\ bot_invocations_total = [t \in Tenants |-> 0]
    /\ mention = NoMention

NextDefaults ==
    \/ \E w \in Workers, t \in Tenants, text \in DefaultsTexts :
          StartSetJiraDefaults(w, t, "C1", text)
    \/ \E w \in Workers, t \in Tenants, text \in ClearTexts :
          StartClearJiraDefault(w, t, "C1", text)
    \/ \E w \in Workers : StepDefaultsGate(w)
    \/ \E w \in Workers : StepDefaultsRead(w)
    \/ \E w \in Workers : StepDefaultsFind(w)
    \/ \E w \in Workers : StepDefaultsWrite(w)

SpecDefaults == InitDefaults /\ [][NextDefaults]_vars

\* the jira_defaults mapping stored for the project
StoredDefaults(o, p) == Get(Get(o.projects, p, EmptyMap), "jira_defaults", EmptyMap)

\* C34 as claimed: two set_jira_defaults commands (or a set_jira_defaults and a
\* clear_jira_default) that touch different field names of the same project both take
\* effect under every interleaving: once both have finished, the stored jira_defaults
\* mapping reflects both changes.  No two commands of this specification give the same
\* field different values, and no command sets a field another one clears.
C34_AsClaimed ==
    AllFinished =>
        \A k \in DOMAIN written :
            LET stored == StoredDefaults(orgs[k[1]], k[2])
            IN  IF written[k] = Cleared THEN k[3] \notin DOMAIN stored
                ELSE k[3] \in DOMAIN stored /\ stored[k[3]] = written[k]

----------------------------------------------------------------------------
(* Jira defaults specification: set_jira_defaults and clear_jira_default, one
   command at a time *)

\* "set jira defaults <after>": well-formed payloads (one pair, several pairs, a name
\* given twice, a value that holds '='), and payloads with a malformed pair (no '=',
\* empty name, empty value, name too long, value too long), an empty payload
SetDefaultsTexts ==
    DefaultsTexts \cup
    {Text(<<>>, <<" ", "k", "=", "v", " ", "k", "=", "w">>),
     Text(<<>>, <<" ", "a", "=", "b", "=", "c">>),
     Text(<<>>, <<" ", "e", "=", "2">>),
     Text(<<>>, <<" ", "k", "=", "v", " ", "=", "v">>),
     Text(<<>>, <<" ", "k", "=", " ", "p", "=", "q">>),
     Text(<<>>, <<" ">> \o Repeat("n", MAX_FIELD_NAME_LENGTH) \o <<"=", "v">>),
     Text(<<>>, <<" ">> \o Repeat("n", MAX_FIELD_NAME_LENGTH + 1) \o <<"=", "v">>),
     Text(<<>>, <<" ", "k", "=">> \o Repeat("v", MAX_FIELD_VALUE_LENGTH)),
     Text(<<>>, <<" ", "p", "=", "q", " ", "k", "=">> \o Repeat("v", MAX_FIELD_VALUE_LENGTH + 1)),
     Text(<<>>, <<" ">>)}

SetJiraDefaults(t, c, text) ==
    /\ now < MaxOps
    /\ Done("set_jira_defaults", t, c, "jira_defaults", <<>>, text,
            set_jira_defaults(orgs[t], text.before, text.after, c, now, impl), FALSE)

ClearJiraDefault(t, c, text) ==
    /\ now < MaxOps
    /\ Done("clear_jira_default", t, c, "jira_defaults", <<>>, text,
            clear_jira_default(orgs[t], text.before, text.after, c, now, impl), FALSE)

ShowJiraDefaults(t, c) ==
    /\ now < MaxOps
    /\ Done("show_jira_defaults", t, c, "", <<>>, NoText,
            show_jira_defaults(orgs[t], c, now, impl), FALSE)

InitJiraDefaults ==
    /\ orgs \in [Tenants -> {NoOrg, LegacyStr, LegacyBad, DefaultsDoc}]
    /\ impl \in {"src", "bot"}
    /\ client = "OpenAI"
    /\ now = 0
    /\ last = NoLast
    /\ rate_limits = [t \in Tenants |-> NoRateDoc]
    /\ limiter = [max_requests |-> MaxMaxRequests, window_seconds |-> 120]
    /\ calls = <<>>
    /\ remaining = NoRemaining
    /\ ticks = 0
    /\ proc = [w \in Workers |-> Idle]
    /\ written = EmptyMap
    /\ extra = [t \in Tenants |-> <<>>]
    /\ bot_invocations_total = [t \in Tenants |-> 0]
    /\ mention = NoMention

NextJiraDefaults ==
    \/ \E t \in Tenants, c \in Channels \cup {NoChannel}, text \in SetDefaultsTexts :
          SetJiraDefaults(t, c, text)
    \/ \E t \in Tenants, c \in Channels \cup {NoChannel}, text \in ClearTexts :
          ClearJiraDefault(t, c, text)
    \/ \E t \in Tenants, c \in Channels \cup {NoChannel} : ShowJiraDefaults(t, c)

SpecJiraDefaults == InitJiraDefaults /\ [][NextJiraDefaults]_vars

\* the payload of the command just run, as the claim reads it: its words, whether one
\* of them is malformed, and the mapping of the well-formed ones
C35_Words == SplitWords(Strip(strip_command(last.text.before, last.text.after)))

C35_Malformed ==
    \E i \in 1..Len(C35_Words) :
        LET pair == C35_Words[i]
            eq   == CHOOSE n \in 1..Len(pair) : pair[n] = "=" /\ \A j \in 1..(n - 1) : pair[j] # "="
        IN  \/ ~Contains(pair, "=")
            \/ eq = 1
            \/ eq = Len(pair)
            \/ eq - 1 > MAX_FIELD_NAME_LENGTH
            \/ Len(pair) - eq > MAX_FIELD_VALUE_LENGTH

C35_Pairs == ParsePairs(C35_Words).defaults

\* the project the command is for: the one bound to the channel, the implicit default
\* project without a channel
C35_Project ==
    IF last.c = NoChannel THEN default_project ELSE Strip(BoundProjectRaw(last.pre, last.c))

\* the command ran and passed the project gate
C35_Case ==
    /\ last.op = "set_jira_defaults"
    /\ require_project_passes(last.pre, last.c)

\* C35 as claimed: set_jira_defaults is all-or-nothing: if any field=value pair of the
\* payload is malformed the store is unchanged; otherwise the stored jira_defaults
\* becomes the previous mapping overridden by the new pairs, so entries not named in
\* the payload are kept.
C35_AsClaimed ==
    C35_Case =>
        IF C35_Malformed \/ C35_Words = <<>>
        THEN orgs[last.t] = last.pre
        ELSE StoredDefaults(orgs[last.t], C35_Project)
                 = Merge(StoredDefaults(last.pre, C35_Project), C35_Pairs)

\* The same for a channel bound to a name that passes sanitize_project_name.
C35_ValidBound ==
    (C35_Case /\ last.c # NoChannel /\ sanitize_project_name(BoundProjectRaw(last.pre, last.c)).ok)
        => IF C35_Malformed \/ C35_Words = <<>>
           THEN orgs[last.t] = last.pre
           ELSE StoredDefaults(orgs[last.t], C35_Project)
                    = Merge(StoredDefaults(last.pre, C35_Project), C35_Pairs)

\* A payload with a malformed pair leaves the store unchanged, whatever the binding.
C35_MalformedNoWrite ==
    (last.op = "set_jira_defaults" /\ (C35_Malformed \/ C35_Words = <<>>))
        => orgs[last.t] = last.pre /\ last.writes = 0

----------------------------------------------------------------------------
(* Tenant isolation: the operations over a store that holds two tenants *)

IsoTenants == {"T1", "T2"}

\* the team_id Slack sends with the events of tenant t
TeamIdOf(t) == IF t = "T1" THEN <<"T", "1">> ELSE <<"T", "2">>

\* team_id as Slack sends it, and padded with whitespace
IsoTeamIds(t) == {TeamIdOf(t), <<" ">> \o TeamIdOf(t)}

\* A mutant: the filter is left out, the first document of the collection is found.
FindOne_nofilter(store, team_id) == CHOOSE t \in DOMAIN store : TRUE

\* orgs.find_one / update_one({"team_id": team_id}, ...): the document the filter selects;
\* a tenant without a document is held as one that does not exist yet
FindOne(store, team_id) == CHOOSE t \in DOMAIN store : TeamIdOf(t) = team_id

\* openai_rate_limiter.operation_name
operation_name == <<"o", "p", "e", "n", "a", "i", "_", "a", "p", "i">>

\* RateLimiter._get_rate_limit_key(team_id): f"{self.operation_name}:{team_id}"
get_rate_limit_key(team_id) == operation_name \o <<":">> \o team_id

\* rate_limits.find_one / update_one({"rate_limit_key": key}, ...): the document
\* stored under the key
FindRateLimit(store, key) ==
    CHOOSE t \in DOMAIN store : get_rate_limit_key(TeamIdOf(t)) = key

IsoOps == {"get_settings", "set_channel_project", "update_settings_field",
           "set_channel_welcome_shown", "list_projects"}

\* The operation op called with team_id on the organizations collection `store`: the
\* identifier is sanitized, the handler works on the document its filters select.
OnOrgs(op, store, team_id, c, text, f, v, t, gen) ==
    LET d == FindOne(store, sanitize_slack_id(team_id).value)
        o == store[d]
        r == CASE op = "get_settings" -> get_settings(o, c, t, gen)
               [] op = "set_channel_project" ->
                      set_channel_project(o, text.before, text.after, c, t, gen)
               [] op = "update_settings_field" -> update_settings_field(o, c, f, v, gen)
               [] op = "set_channel_welcome_shown" ->
                      LET o1 == set_channel_welcome_shown(o, c, TRUE)
                      IN  [o |-> o1, ret |-> RetNone, writes |-> Modified(o, o1),
                           pwrites |-> 0]
               [] op = "list_projects" -> list_projects(o, team_id)
    IN  [orgs |-> [store EXCEPT ![d] = r.o], ret |-> r.ret, writes |-> r.writes,
         pwrites |-> r.pwrites]

\* is_allowed(team_id) on the rate_limits collection `store`
OnRateLimits(store, lim, team_id, t) ==
    LET d == FindRateLimit(store, get_rate_limit_key(sanitize_slack_id(team_id).value))
        r == is_allowed(store[d], lim, t)
    IN  [rate_limits |-> [store EXCEPT ![d] = r.doc], r |-> r]

\* A request of tenant t runs op; the record keeps the identifier it was given in v.
IsoDone(op, t, team_id, c, text, f) ==
    /\ now + Len(calls) < MaxOps
    /\ LET s == OnOrgs(op, orgs, team_id, c, text, f, <<"x">>, now, impl)
       IN  /\ orgs' = s.orgs
           /\ last' = [NoLast EXCEPT !.op = op, !.t = t, !.c = c, !.f = f, !.v = team_id,
                                     !.text = text, !.ret = s.ret, !.pre = orgs[t],
                                     !.writes = s.writes, !.pwrites = s.pwrites,
                                     !.prev = [op |-> last.op, c |-> last.c,
                                               ret |-> last.ret, pre |-> last.pre]]
    /\ now' = now + 1
    /\ UNCHANGED <<impl, client, mention, rlvars, concvars>>

IsoGetSettings(t, team_id, c) == IsoDone("get_settings", t, team_id, c, NoText, "")

IsoSetChannelProject(t, team_id, c, text) ==
    IsoDone("set_channel_project", t, team_id, c, text, "")

IsoUpdateSettingsField(t, team_id, c, f) ==
    IsoDone("update_settings_field", t, team_id, c, NoText, f)

IsoSetChannelWelcomeShown(t, team_id, c) ==
    IsoDone("set_channel_welcome_shown", t, team_id, c, NoText, "")

IsoListProjects(t, team_id) == IsoDone("list_projects", t, team_id, NoChannel, NoText, "")

IsoIsAllowed(t, team_id) ==
    /\ now + Len(calls) < MaxOps
    /\ LET s == OnRateLimits(rate_limits, limiter, team_id, now)
       IN  /\ rate_limits' = s.rate_limits
           /\ calls' = Append(calls, [team_id |-> t, raw |-> team_id, t |-> now,
                                      allowed |-> s.r.allowed, pre |-> rate_limits[t]])
    /\ UNCHANGED <<orgs, impl, client, mention, now, last, limiter, remaining, ticks,
                   concvars>>

IsoTexts == {Text(<<>>, <<" ", "B", " ">>)}

\* the documents the two tenants start with
IsoDocs == {NoOrg, LegacyStr, LegacyNoDate}

InitIso ==
    /\ orgs \in [IsoTenants -> IsoDocs]
    /\ impl \in {"src", "bot"}
    /\ client = "OpenAI"
    /\ now = 0
    /\ last = NoLast
    /\ rate_limits = [t \in IsoTenants |-> NoRateDoc]
    /\ limiter = [max_requests |-> 1, window_seconds |-> 120]
    /\ calls = <<>>
    /\ remaining = NoRemaining
    /\ ticks = 0
    /\ proc = [w \in Workers |-> Idle]
    /\ written = EmptyMap
    /\ extra = [t \in IsoTenants |-> <<>>]
    /\ bot_invocations_total = [t \in IsoTenants |-> 0]
    /\ mention = NoMention

NextIso ==
    \/ \E t \in IsoTenants : \E team_id \in IsoTeamIds(t), c \in {"C1", NoChannel} :
          IsoGetSettings(t, team_id, c)
    \/ \E t \in IsoTenants : \E team_id \in IsoTeamIds(t), text \in IsoTexts :
          IsoSetChannelProject(t, team_id, "C1", text)
    \/ \E t \in IsoTenants : \E team_id \in IsoTeamIds(t) :
          IsoUpdateSettingsField(t, team_id, "C1", "project_context")
    \/ \E t \in IsoTenants : \E team_id \in IsoTeamIds(t) :
          IsoSetChannelWelcomeShown(t, team_id, "C1")
    \/ \E t \in IsoTenants : \E team_id \in IsoTeamIds(t) : IsoListProjects(t, team_id)
    \/ \E t \in IsoTenants : \E team_id \in IsoTeamIds(t) : IsoIsAllowed(t, team_id)

SpecIso == InitIso /\ [][NextIso]_vars

\* the documents another tenant could hold in place of its own
C38_OtherDocs == InitDocs \cup {BareOrg}
C38_OtherRateDocs == {NoRateDoc, [exists |-> TRUE, requests |-> <<Stamp(0)>>],
                      [exists |-> TRUE, requests |-> <<Stamp(0), Stamp(1)>>]}

\* the step is a command of tenant t on the organizations collection
C38_OrgStep(t) == last' # last /\ last'.t = t

\* the step is an is_allowed call of tenant t
C38_LimiterStep(t) == calls' # calls /\ calls'[Len(calls')].team_id = t

\* C38: tenant isolation: every operation invoked for tenant T1 (get_settings,
\* set_channel_project, _update_settings_field, set_channel_welcome_shown,
\* list_projects, is_allowed) leaves the organization record and the rate-limit record
\* of every other tenant T2 unchanged, and its result does not depend on the data of
\* T2: with any other record held for T2 the call returns the same result and leaves
\* the same record for T1.
C38_Isolation ==
    [][\A t \in IsoTenants : \A t2 \in IsoTenants \ {t} :
          /\ C38_OrgStep(t) =>
                /\ orgs'[t2] = orgs[t2]
                /\ rate_limits' = rate_limits
                /\ \A d2 \in C38_OtherDocs :
                      LET s == OnOrgs(last'.op, [orgs EXCEPT ![t2] = d2], last'.v, last'.c,
                                      last'.text, last'.f, <<"x">>, now, impl)
                      IN  /\ s.ret = last'.ret
                          /\ s.orgs[t] = orgs'[t]
                          /\ s.orgs[t2] = d2
          /\ C38_LimiterStep(t) =>
                /\ rate_limits'[t2] = rate_limits[t2]
                /\ orgs' = orgs
                /\ \A d2 \in C38_OtherRateDocs :
                      LET s == OnRateLimits([rate_limits EXCEPT ![t2] = d2], limiter,
                                            calls'[Len(calls')].raw, now)
                      IN  /\ s.r.allowed = calls'[Len(calls')].allowed
                          /\ s.rate_limits[t] = rate_limits'[t]
                          /\ s.rate_limits[t2] = d2
      ]_vars

\* A command of one tenant has changed its record while the other tenant holds a
\* different record, and one tenant is refused by the limiter while the other, which
\* has been allowed once, still holds one request.
C38_Witness ==
    /\ last.op = "set_channel_project" /\ last.ret.msg = MsgBound
    /\ orgs[last.t] # last.pre
    /\ \E t2 \in IsoTenants \ {last.t} : orgs[t2].exists /\ orgs[t2] # orgs[last.t]
    /\ Len(calls) = 2
    /\ calls[1].team_id # calls[2].team_id
    /\ calls[1].allowed /\ calls[2].allowed
    /\ \A t \in IsoTenants : Len(rate_limits[t].requests) = 1

====
